---- MODULE Spec2Model ----
(***************************************************************************)
(* A model of the switchfs routing engine: the pattern matchers, the       *)
(* route conditions, and the default (uncached) router with its route      *)
(* table.                                                                  *)
(*                                                                         *)
(* Strings are sequences of one-character strings, so that the string      *)
(* functions the matchers use (filepath.Clean, strings.HasPrefix, ...)     *)
(* are computed as the code computes them.                                 *)
(***************************************************************************)
EXTENDS Integers, Sequences, FiniteSets, TLC

(***************************************************************************)
(* Bounds of the model.                                                    *)
(***************************************************************************)
\* Most routes the table holds in the specifications Spec, SpecInfo, SpecSnap.
MaxRoutes == 3
\* Deepest nesting of And/Or/Not in the conditions SpecCond enumerates.
MaxDepth == 1

(***************************************************************************)
(* Strings.                                                                *)
(***************************************************************************)
\* strings.HasPrefix(s, prefix)
HasPrefix(s, prefix) ==
    /\ Len(s) >= Len(prefix)
    /\ SubSeq(s, 1, Len(prefix)) = prefix

\* strings.Contains(s, "/")
ContainsSlash(s) == \E i \in 1..Len(s) : s[i] = "/"

\* Index (1-based) of the last "/" of s, 0 when there is none.
LastSlash(s) ==
    IF ContainsSlash(s)
    THEN CHOOSE i \in 1..Len(s) :
             /\ s[i] = "/"
             /\ \A j \in (i+1)..Len(s) : s[j] # "/"
    ELSE 0

\* Drops the trailing "/" characters of s.
RECURSIVE StripTrailingSlashes(_)
StripTrailingSlashes(s) ==
    IF Len(s) > 0 /\ s[Len(s)] = "/"
    THEN StripTrailingSlashes(SubSeq(s, 1, Len(s) - 1))
    ELSE s

\* filepath.Base(path) on a slash-separated path.
Base(path) ==
    IF path = <<>> THEN <<".">>
    ELSE LET t == StripTrailingSlashes(path) IN
         IF t = <<>> THEN <<"/">>
         ELSE SubSeq(t, LastSlash(t) + 1, Len(t))

\* The loop of filepath.Clean: r is the read index (0-based) into path, out
\* the output buffer, dotdot the index in out below which ".." cannot
\* backtrack.
RECURSIVE CleanLoop(_, _, _, _, _)
CleanLoop(path, rooted, r, out, dotdot) ==
    LET n == Len(path)
        at(i) == path[i + 1]
    IN
    IF r >= n THEN out
    ELSE IF at(r) = "/" THEN
        \* empty path element
        CleanLoop(path, rooted, r + 1, out, dotdot)
    ELSE IF at(r) = "." /\ (r + 1 = n \/ at(r + 1) = "/") THEN
        \* . element
        CleanLoop(path, rooted, r + 1, out, dotdot)
    ELSE IF at(r) = "." /\ at(r + 1) = "." /\ (r + 2 = n \/ at(r + 2) = "/") THEN
        \* .. element: remove to last separator
        IF Len(out) > dotdot THEN
            LET keep == IF \E q \in (dotdot + 2)..Len(out) : out[q] = "/"
                        THEN (CHOOSE q \in (dotdot + 2)..Len(out) :
                                 /\ out[q] = "/"
                                 /\ \A j \in (q + 1)..Len(out) : out[j] # "/") - 1
                        ELSE dotdot
            IN CleanLoop(path, rooted, r + 2, SubSeq(out, 1, keep), dotdot)
        ELSE IF ~rooted THEN
            \* cannot backtrack, but not rooted, so append .. element
            LET o1 == IF Len(out) > 0 THEN Append(out, "/") ELSE out
                o2 == o1 \o <<".", ".">>
            IN CleanLoop(path, rooted, r + 2, o2, Len(o2))
        ELSE
            CleanLoop(path, rooted, r + 2, out, dotdot)
    ELSE
        \* real path element: add slash if needed, then copy the element
        LET o1 == IF (rooted /\ Len(out) # 1) \/ (~rooted /\ Len(out) # 0)
                  THEN Append(out, "/") ELSE out
            stop == IF \E i \in r..(n - 1) : at(i) = "/"
                    THEN CHOOSE i \in r..(n - 1) :
                             /\ at(i) = "/"
                             /\ \A j \in r..(i - 1) : at(j) # "/"
                    ELSE n
        IN CleanLoop(path, rooted, stop, o1 \o SubSeq(path, r + 1, stop), dotdot)

\* filepath.Clean(path) (forward-slash platform).
Clean(path) ==
    IF path = <<>> THEN <<".">>
    ELSE LET rooted == path[1] = "/"
             out == IF rooted
                    THEN CleanLoop(path, TRUE, 1, <<"/">>, 1)
                    ELSE CleanLoop(path, FALSE, 0, <<>>, 0)
         IN IF out = <<>> THEN <<".">> ELSE out

(***************************************************************************)
(* Pattern matchers (cache.go).  The glob and regular-expression engines   *)
(* are libraries; they are modelled for the pattern grammar the model      *)
(* uses: literal characters, "*" and "?" for globs, literal characters     *)
(* with an optional leading "^" and trailing "$" for regular expressions.  *)
(* A "[" (an unclosed character class) is invalid in both grammars and a   *)
(* "*" with nothing to repeat is an invalid regular expression.            *)
(***************************************************************************)
PatternPrefix == 0
PatternGlob == 1
PatternRegex == 2

\* doublestar.ValidatePattern(pattern)
ValidatePattern(pattern) == \A i \in 1..Len(pattern) : pattern[i] # "["

\* doublestar.Match(pattern, name): "*" is any run of non-separators, "?" one
\* non-separator, anything else stands for itself.
RECURSIVE DoublestarMatch(_, _)
DoublestarMatch(pattern, name) ==
    IF pattern = <<>> THEN name = <<>>
    ELSE IF pattern[1] = "*" THEN
        \E k \in 0..Len(name) :
            /\ \A i \in 1..k : name[i] # "/"
            /\ DoublestarMatch(Tail(pattern), SubSeq(name, k + 1, Len(name)))
    ELSE IF pattern[1] = "?" THEN
        /\ name # <<>>
        /\ name[1] # "/"
        /\ DoublestarMatch(Tail(pattern), Tail(name))
    ELSE
        /\ name # <<>>
        /\ name[1] = pattern[1]
        /\ DoublestarMatch(Tail(pattern), Tail(name))

\* regexp.Compile(pattern) succeeds.
RegexpCompiles(pattern) ==
    \A i \in 1..Len(pattern) : pattern[i] \notin {"[", "*", "?"}

\* regexp.MatchString: substring semantics, anchors only where written.
RegexpMatchString(pattern, s) ==
    LET anchoredStart == pattern # <<>> /\ pattern[1] = "^"
        p1 == IF anchoredStart THEN Tail(pattern) ELSE pattern
        anchoredEnd == p1 # <<>> /\ p1[Len(p1)] = "$"
        lit == IF anchoredEnd THEN SubSeq(p1, 1, Len(p1) - 1) ELSE p1
    IN \E i \in 1..(Len(s) - Len(lit) + 1) :
           /\ SubSeq(s, i, i + Len(lit) - 1) = lit
           /\ anchoredStart => i = 1
           /\ anchoredEnd => i + Len(lit) - 1 = Len(s)

\* prefixMatcher.Match accepting only at a component boundary.
PrefixMatchComponent(prefix0, path0) ==
    LET path == Clean(path0)
        prefix == Clean(prefix0)
        normPath == IF ~HasPrefix(path, <<"/">>) THEN <<"/">> \o path ELSE path
        normPrefix == IF ~HasPrefix(prefix, <<"/">>) THEN <<"/">> \o prefix ELSE prefix
    IN \/ normPath = normPrefix
       \/ HasPrefix(normPath, normPrefix \o <<"/">>)

\* prefixMatcher.Match
PrefixMatch(prefix0, path0) ==
    LET path == Clean(path0)
        prefix == Clean(prefix0)
        normPath == IF ~HasPrefix(path, <<"/">>) THEN <<"/">> \o path ELSE path
        normPrefix == IF ~HasPrefix(prefix, <<"/">>) THEN <<"/">> \o prefix ELSE prefix
    IN HasPrefix(normPath, normPrefix)

\* globMatcher.Match
GlobMatch(pattern, path0) ==
    LET path == Clean(path0)
    IN \/ DoublestarMatch(pattern, path)
       \/ /\ HasPrefix(path, <<"/">>)
          /\ DoublestarMatch(pattern, Tail(path))
       \/ /\ ~HasPrefix(path, <<"/">>)
          /\ DoublestarMatch(pattern, <<"/">> \o path)
       \/ /\ ~ContainsSlash(pattern)
          /\ ContainsSlash(path)
          /\ DoublestarMatch(pattern, Base(path))

\* regexMatcher.Match
RegexMatch(pattern, path) == RegexpMatchString(pattern, path)

\* The absent matcher (a nil patternMatcher).
NoMatcher == [kind |-> -1, pattern |-> <<>>]

\* compileMatcher: the matcher and the error.
compileMatcher(pattern, patternType) ==
    IF patternType = PatternPrefix THEN
        [matcher |-> [kind |-> PatternPrefix, pattern |-> pattern], err |-> "nil"]
    ELSE IF patternType = PatternGlob THEN
        IF ~ValidatePattern(pattern)
        THEN [matcher |-> NoMatcher, err |-> "ErrInvalidPattern"]
        ELSE [matcher |-> [kind |-> PatternGlob, pattern |-> pattern], err |-> "nil"]
    ELSE IF patternType = PatternRegex THEN
        IF ~RegexpCompiles(pattern)
        THEN [matcher |-> NoMatcher, err |-> "ErrInvalidPattern"]
        ELSE [matcher |-> [kind |-> PatternRegex, pattern |-> pattern], err |-> "nil"]
    ELSE [matcher |-> NoMatcher, err |-> "ErrInvalidPattern"]

\* patternMatcher.Match, dispatched on the matcher's dynamic type.
Match(compiled, path) ==
    IF compiled.kind = PatternPrefix THEN PrefixMatch(compiled.pattern, path)
    ELSE IF compiled.kind = PatternGlob THEN GlobMatch(compiled.pattern, path)
    ELSE RegexMatch(compiled.pattern, path)

(***************************************************************************)
(* Route conditions (conditions.go).  A condition is a tree; os.FileInfo   *)
(* is a record, NoInfo being the nil FileInfo.  A *time.Time bound is a    *)
(* record [set, t]: set is FALSE for the nil pointer.                      *)
(***************************************************************************)
\* The nil os.FileInfo.
NoInfo == [present |-> FALSE, size |-> 0, modTime |-> 0, isDir |-> FALSE]
\* A non-nil os.FileInfo.
FileInfo(size, modTime, isDir) ==
    [present |-> TRUE, size |-> size, modTime |-> modTime, isDir |-> isDir]

\* The nil RouteCondition.
NoCondition == [k |-> "nil"]

NoTime == [set |-> FALSE, t |-> 0]
SomeTime(t) == [set |-> TRUE, t |-> t]

MinSize(bytes) == [k |-> "size", minSize |-> bytes, maxSize |-> 0]
MaxSize(bytes) == [k |-> "size", minSize |-> 0, maxSize |-> bytes]
SizeRange(minBytes, maxBytes) == [k |-> "size", minSize |-> minBytes, maxSize |-> maxBytes]
OlderThan(t) == [k |-> "time", olderThan |-> SomeTime(t), newerThan |-> NoTime]
NewerThan(t) == [k |-> "time", olderThan |-> NoTime, newerThan |-> SomeTime(t)]
ModifiedBetween(start, end) ==
    [k |-> "time", olderThan |-> SomeTime(end), newerThan |-> SomeTime(start)]
DirectoriesOnly == [k |-> "dir", directoriesOnly |-> TRUE]
FilesOnly == [k |-> "dir", directoriesOnly |-> FALSE]
And(conditions) == [k |-> "and", conditions |-> conditions]
Or(conditions) == [k |-> "or", conditions |-> conditions]
Not(condition) == [k |-> "not", condition |-> condition]

\* sizeCondition.Evaluate without the nil check: a nil FileInfo reads as size 0.
sizeEvaluateNoNilCheck(c, info) ==
    IF c.minSize > 0 /\ info.size < c.minSize THEN FALSE
    ELSE IF c.maxSize > 0 /\ info.size > c.maxSize THEN FALSE
    ELSE TRUE

\* sizeCondition.Evaluate rejecting a size equal to a bound.
sizeEvaluateStrict(c, info) ==
    IF ~info.present THEN TRUE
    ELSE IF c.minSize > 0 /\ info.size <= c.minSize THEN FALSE
    ELSE IF c.maxSize > 0 /\ info.size >= c.maxSize THEN FALSE
    ELSE TRUE

\* sizeCondition.Evaluate
sizeEvaluate(c, info) ==
    IF ~info.present THEN TRUE
    ELSE IF c.minSize > 0 /\ info.size < c.minSize THEN FALSE
    ELSE IF c.maxSize > 0 /\ info.size > c.maxSize THEN FALSE
    ELSE TRUE

\* timeCondition.Evaluate
timeEvaluate(c, info) ==
    IF ~info.present THEN TRUE
    ELSE IF c.olderThan.set /\ info.modTime > c.olderThan.t THEN FALSE
    ELSE IF c.newerThan.set /\ info.modTime < c.newerThan.t THEN FALSE
    ELSE TRUE

\* directoryCondition.Evaluate
directoryEvaluate(c, info) ==
    IF ~info.present THEN TRUE
    ELSE IF c.directoriesOnly THEN info.isDir
    ELSE ~info.isDir

\* RouteCondition.Evaluate, dispatched on the condition's dynamic type; the
\* and/or loops run left to right and return at the first deciding operand.
RECURSIVE Evaluate(_, _)
RECURSIVE andEvaluate(_, _, _)
RECURSIVE orEvaluate(_, _, _)
\* andCondition.Evaluate, from operand i on.
andEvaluate(conditions, i, info) ==
    IF i > Len(conditions) THEN TRUE
    ELSE IF ~Evaluate(conditions[i], info) THEN FALSE
    ELSE andEvaluate(conditions, i + 1, info)
\* orCondition.Evaluate, from operand i on.
orEvaluate(conditions, i, info) ==
    IF i > Len(conditions) THEN FALSE
    ELSE IF Evaluate(conditions[i], info) THEN TRUE
    ELSE orEvaluate(conditions, i + 1, info)
\* notCondition.Evaluate without the negation.
notEvaluateSame(c, info) == Evaluate(c.condition, info)
\* notCondition.Evaluate
notEvaluate(c, info) == ~Evaluate(c.condition, info)

Evaluate(c, info) ==
    CASE c.k = "size" -> sizeEvaluate(c, info)
      [] c.k = "time" -> timeEvaluate(c, info)
      [] c.k = "dir" -> directoryEvaluate(c, info)
      [] c.k = "and" -> andEvaluate(c.conditions, 1, info)
      [] c.k = "or" -> orEvaluate(c.conditions, 1, info)
      [] c.k = "not" -> notEvaluate(c, info)

\* The number of operands whose Evaluate the loop of andCondition.Evaluate
\* calls, from operand i on, before it returns.
RECURSIVE andCalls(_, _, _)
andCalls(conditions, i, info) ==
    IF i > Len(conditions) THEN 0
    ELSE IF ~Evaluate(conditions[i], info) THEN 1
    ELSE 1 + andCalls(conditions, i + 1, info)
\* The same for orCondition.Evaluate.
RECURSIVE orCalls(_, _, _)
orCalls(conditions, i, info) ==
    IF i > Len(conditions) THEN 0
    ELSE IF Evaluate(conditions[i], info) THEN 1
    ELSE 1 + orCalls(conditions, i + 1, info)
\* The number of calls of Evaluate that c.Evaluate makes on its operands.
operandCalls(c, info) ==
    CASE c.k = "and" -> andCalls(c.conditions, 1, info)
      [] c.k = "or" -> orCalls(c.conditions, 1, info)
      [] c.k = "not" -> 1
      [] OTHER -> 0

(***************************************************************************)
(* sort.Slice as the toolchain of go.mod (go 1.21 and later) runs it on    *)
(* the route table: pdqsort_func, which sorts a range of at most           *)
(* MaxInsertion elements by insertion sort and partitions a longer one     *)
(* around a median-of-three pivot.  Indices are 0-based as in the Go       *)
(* code; the table is a 1-based sequence.                                  *)
(***************************************************************************)
\* The longest range pdqsort_func hands to insertion sort.
MaxInsertion == 12

\* Less with the comparison turned round: lowest priority first.
LessAscending(s, i, j) == s[i + 1].Priority < s[j + 1].Priority

\* The less function AddRoute gives sort.Slice.
Less(s, i, j) == s[i + 1].Priority > s[j + 1].Priority

\* The swap function of the slice.
Swap(s, i, j) == [s EXCEPT ![i + 1] = s[j + 1], ![j + 1] = s[i + 1]]

\* The inner loop of insertionSort_func: sinks element j towards a.
RECURSIVE insertionInner(_, _, _)
insertionInner(s, a, j) ==
    IF j > a /\ Less(s, j, j - 1)
    THEN insertionInner(Swap(s, j, j - 1), a, j - 1)
    ELSE s

\* insertionSort_func(data, a, b), from element i on.
RECURSIVE insertionSort(_, _, _, _)
insertionSort(s, a, b, i) ==
    IF i >= b THEN s
    ELSE insertionSort(insertionInner(s, a, i), a, b, i + 1)

\* order2_func: the two indices in order, and the swap count.
order2(s, x) ==
    IF Less(s, x.b, x.a)
    THEN [a |-> x.b, b |-> x.a, swaps |-> x.swaps + 1]
    ELSE x

\* median_func(data, a, b, c, &swaps)
median(s, a, b, c) ==
    LET s1 == order2(s, [a |-> a, b |-> b, swaps |-> 0])
        s2 == order2(s, [a |-> s1.b, b |-> c, swaps |-> s1.swaps])
        s3 == order2(s, [a |-> s1.a, b |-> s2.a, swaps |-> s2.swaps])
    IN [pivot |-> s3.b, swaps |-> s3.swaps]

\* choosePivot_func(data, a, b) for a range shorter than 50 (no ninther): the
\* pivot and whether the range looks already increasing.
choosePivot(s, a, b) ==
    LET l == b - a
        i == a + (l \div 4) * 1
        j == a + (l \div 4) * 2
        k == a + (l \div 4) * 3
        m == IF l >= 8 THEN median(s, i, j, k) ELSE [pivot |-> j, swaps |-> 0]
    IN [pivot |-> m.pivot, increasing |-> m.swaps = 0]

\* partialInsertionSort_func(data, a, b) for a range shorter than 50: it
\* changes nothing and reports whether the range is already sorted.
partialInsertionSort(s, a, b) ==
    \A i \in (a + 1)..(b - 1) : ~Less(s, i, i - 1)

\* The two scans of partitionOrdered_func.
RECURSIVE scanUp(_, _, _, _)
scanUp(s, a, i, j) ==
    IF i <= j /\ Less(s, i, a) THEN scanUp(s, a, i + 1, j) ELSE i
RECURSIVE scanDown(_, _, _, _)
scanDown(s, a, i, j) ==
    IF i <= j /\ ~Less(s, j, a) THEN scanDown(s, a, i, j - 1) ELSE j

\* The main loop of partitionOrdered_func.
RECURSIVE partitionLoop(_, _, _, _)
partitionLoop(s, a, i0, j0) ==
    LET i == scanUp(s, a, i0, j0)
        j == scanDown(s, a, i, j0)
    IN IF i > j THEN [s |-> Swap(s, j, a), mid |-> j]
       ELSE partitionLoop(Swap(s, i, j), a, i + 1, j - 1)

\* partitionOrdered_func(data, a, b, pivot)
partitionOrdered(s, a, b, pivot) ==
    LET s1 == Swap(s, a, pivot)
        i == scanUp(s1, a, a + 1, b - 1)
        j == scanDown(s1, a, i, b - 1)
    IN IF i > j THEN [s |-> Swap(s1, j, a), mid |-> j]
       ELSE partitionLoop(Swap(s1, i, j), a, i + 1, j - 1)

\* pdqsort_func(data, a, b, limit) on a range that insertion sort takes.
sortShort(s, a, b) ==
    CASE b - a <= MaxInsertion -> insertionSort(s, a, b, a + 1)

\* sort.Slice(r.routes, less).  A table of MaxInsertion + 1 routes is the
\* longest the specifications reach: its two partitions go to insertion sort.
SortSlice(s) ==
    LET n == Len(s) IN
    IF n <= MaxInsertion THEN insertionSort(s, 0, n, 1)
    ELSE LET pv == choosePivot(s, 0, n) IN
         IF pv.increasing /\ partialInsertionSort(s, 0, n) THEN s
         ELSE LET part == partitionOrdered(s, 0, n, pv.pivot)
              IN sortShort(sortShort(part.s, 0, part.mid), part.mid + 1, n)

(***************************************************************************)
(* Path rewriters (rewriter.go).  A rewriter is a record; NoRewriter is    *)
(* the nil PathRewriter.  A static mapping is a function from paths to     *)
(* paths.                                                                  *)
(***************************************************************************)
NoRewriter == [k |-> "nil"]

\* strings.TrimPrefix(s, prefix)
TrimPrefix(s, prefix) ==
    IF HasPrefix(s, prefix) THEN SubSeq(s, Len(prefix) + 1, Len(s)) ELSE s

ReplacePrefix(oldPrefix, newPrefix) ==
    [k |-> "prefix", oldPrefix |-> oldPrefix, newPrefix |-> newPrefix]
StripPrefix(prefix) == ReplacePrefix(prefix, <<>>)
AddPrefix(prefix) == ReplacePrefix(<<>>, prefix)
ChainRewriters(rewriters) == [k |-> "chain", rewriters |-> rewriters]
StaticMapping(mapping) == [k |-> "static", mapping |-> mapping]

\* prefixRewriter.Rewrite
prefixRewrite(r, path) ==
    IF r.oldPrefix = <<>> THEN r.newPrefix \o path
    ELSE IF HasPrefix(path, r.oldPrefix)
         THEN r.newPrefix \o TrimPrefix(path, r.oldPrefix)
         ELSE path

\* staticRewriter.Rewrite
staticRewrite(r, path) ==
    IF path \in DOMAIN r.mapping THEN r.mapping[path] ELSE path

RECURSIVE Rewrite(_, _)
RECURSIVE chainRewrite(_, _, _)
RECURSIVE chainRewriteBackwards(_, _, _)
\* chainRewriter.Rewrite with its loop running from the last rewriter to
\* the first.
chainRewriteBackwards(rewriters, i, path) ==
    IF i > Len(rewriters) THEN path
    ELSE Rewrite(rewriters[i], chainRewriteBackwards(rewriters, i + 1, path))

\* chainRewriter.Rewrite: the loop from rewriter i on
chainRewrite(rewriters, i, path) ==
    IF i > Len(rewriters) THEN path
    ELSE chainRewrite(rewriters, i + 1, Rewrite(rewriters[i], path))

\* PathRewriter.Rewrite(path), dispatched on the rewriter's type
Rewrite(r, path) ==
    CASE r.k = "prefix" -> prefixRewrite(r, path)
      [] r.k = "chain" -> chainRewrite(r.rewriters, 1, path)
      [] r.k = "static" -> staticRewrite(r, path)

(***************************************************************************)
(* The router (router.go, the default router without a cache).             *)
(***************************************************************************)
VARIABLES
    routes,   \* router.routes: the route table, a sequence of Route
    stable,   \* history: the keys of the table's routes by priority
              \* descending and, among equal priorities, by time of insertion
    ret,      \* the last call on the router and what it returned
    snap,     \* the slice the last Routes() call returned, as its caller holds it
    cond,     \* the condition a caller is building (SpecCond)
    defaultFS, \* SwitchFS.defaultFS: the default backend, or NilBackend
    disk,     \* the backends: for each one, the object it holds at each path
    log,      \* the calls the last facade operation made on backends and on
              \* the handles they returned, in order, with their results
    fret,     \* the last facade operation and what it returned
    currentDir, \* SwitchFS.currentDir: the working directory
    tempDir,  \* SwitchFS.tempDir: the temporary directory
    cache,    \* router.cache: the RouteCache of a router made by
              \* NewRouterWithCache, NilCache for NewRouter's
    now,      \* the clock time.Now() reads
    ref,      \* the *Route a caller of RouteWithInfo holds and the array
              \* r.routes is stored in, NoRef while no caller holds one
    health,   \* the HealthMonitor: its settings and its backends map
    stats,    \* the StatsCollector: its lock and the calls in progress on it
    thread,   \* for each thread, the call it is in and where it is in it
    mu,       \* router.mu: the thread holding the write lock and the
              \* threads holding the read lock
    lin       \* history: the working directories a sequential order of
              \* the Chdir calls made so far by the threads can have
              \* produced, each with the calls in progress it counts as done

\* The facade's variables (SwitchFS, the backends and the record of its
\* calls) and the threads' (the calls in progress and the router's lock).
otherVars ==
    <<defaultFS, disk, log, fret, currentDir, tempDir, thread, mu, lin,
      now, health, stats>>
extVars == <<cache, now, ref, health, stats>>
fsVars == <<otherVars, cache, ref>>

vars == <<routes, stable, ret, snap, cond, fsVars>>

\* New: tempDir: "/tmp"
TmpDir == <<"/", "t", "m", "p">>

\* The nil absfs.FileSystem.
NilBackend == "nil"

\* A Route value as the caller builds it (compiled is set by AddRoute).
MakeRoute(pattern, type, backend, priority, condition) ==
    [Pattern |-> pattern, Type |-> type, Backend |-> backend,
     Priority |-> priority, Condition |-> condition, Rewriter |-> NoRewriter,
     compiled |-> NoMatcher]

\* WithRewriter(rewriter), applied to a route
WithRewriter(route, rewriter) == [route EXCEPT !.Rewriter = rewriter]

\* The zero value of Route.
ZeroRoute == MakeRoute(<<>>, 0, NilBackend, 0, NoCondition)

\* What identifies a route for the duplicate check, with its priority.
KeyOf(route) ==
    [Pattern |-> route.Pattern, Type |-> route.Type, Priority |-> route.Priority]

\* The value of a one-element set.  An intermediate result of an
\* operation is bound as the element of a one-element set, so that it is
\* computed once wherever the steps after it use it.
TheOne(S) == CHOOSE x \in S : TRUE

\* NewRouter: cache: nil.
NilCache == [maxSize |-> 0, ttl |-> 0, entries |-> <<>>, nil |-> TRUE]
\* No caller holds a *Route.
NoRef == [tracked |-> FALSE, held |-> FALSE]
\* No HealthMonitor and no StatsCollector.
NoMonitor == [failureThreshold |-> 0]
NoCollector == [writer |-> "none"]

\* The router's cache is nil, the clock is at 0 and there is no caller's
\* pointer, monitor or collector.
InitExt ==
    /\ cache = NilCache
    /\ now = 0
    /\ ref = NoRef
    /\ health = NoMonitor
    /\ stats = NoCollector

\* The record of a call: its arguments and results (unused fields are zero).
NoCall ==
    [op |-> "none", err |-> "nil", pattern |-> <<>>, type |-> 0,
     backend |-> NilBackend, path |-> <<>>, info |-> NoInfo, idx |-> 0,
     ok |-> FALSE]

\* No slice held by a caller.
NoSnap == [held |-> FALSE, shared |-> FALSE, data |-> <<>>]

\* The duplicate check comparing the pattern alone.
isDuplicatePatternOnly(rs, route) ==
    \E i \in 1..Len(rs) : rs[i].Pattern = route.Pattern

\* The duplicate check of AddRoute: some existing route has the pattern and type.
isDuplicate(rs, route) ==
    \E i \in 1..Len(rs) :
        rs[i].Pattern = route.Pattern /\ rs[i].Type = route.Type

\* The error AddRoute returns for route on table rs ("nil" for success).
addRouteErr(rs, route) ==
    IF route.Backend = NilBackend THEN "ErrNilBackend"
    ELSE IF compileMatcher(route.Pattern, route.Type).err # "nil"
         THEN compileMatcher(route.Pattern, route.Type).err
    ELSE IF isDuplicate(rs, route) THEN "ErrDuplicateRoute"
    ELSE "nil"

\* The table after a successful AddRoute: append, then sort.
addRouteTable(rs, route) ==
    SortSlice(Append(rs,
        [route EXCEPT !.compiled = compileMatcher(route.Pattern, route.Type).matcher]))

\* AddRoute appending before it checks for a duplicate.
addRouteResultAppendFirst(rs, route) ==
    LET err == addRouteErr(rs, route) IN
    [err |-> err,
     routes |-> IF err \in {"ErrNilBackend", "ErrInvalidPattern"} THEN rs
                ELSE addRouteTable(rs, route)]

\* AddRoute as a whole: the error it returns and the table it leaves.
addRouteResult(rs, route) ==
    LET err == addRouteErr(rs, route) IN
    [err |-> err, routes |-> IF err # "nil" THEN rs ELSE addRouteTable(rs, route)]

\* The position a stable sort gives a new key: behind every key of the same
\* or a higher priority.
StableInsert(keys, key) ==
    LET before == Cardinality({i \in 1..Len(keys) : keys[i].Priority >= key.Priority})
    IN SubSeq(keys, 1, before) \o <<key>> \o SubSeq(keys, before + 1, Len(keys))

\* s without its element at index i (1-based): append(s[:i], s[i+1:]...).
removeAt(s, i) == SubSeq(s, 1, i - 1) \o SubSeq(s, i + 1, Len(s))

\* RemoveRoute's loop taking the last route with the pattern.
removeIndexLast(rs, pattern) ==
    IF \E i \in 1..Len(rs) : rs[i].Pattern = pattern
    THEN CHOOSE i \in 1..Len(rs) :
             /\ rs[i].Pattern = pattern
             /\ \A j \in (i + 1)..Len(rs) : rs[j].Pattern # pattern
    ELSE 0

\* The index RemoveRoute's loop stops at: the first route with the pattern,
\* 0 when there is none.
removeIndex(rs, pattern) ==
    IF \E i \in 1..Len(rs) : rs[i].Pattern = pattern
    THEN CHOOSE i \in 1..Len(rs) :
             /\ rs[i].Pattern = pattern
             /\ \A j \in 1..(i - 1) : rs[j].Pattern # pattern
    ELSE 0

\* The test of Route's loop on one route.
routeAccepts(route, path) ==
    route.compiled # NoMatcher /\ Match(route.compiled, path)

\* Route's loop without its return: the last accepting route wins.
routeIndexLast(rs, path) ==
    IF \E i \in 1..Len(rs) : routeAccepts(rs[i], path)
    THEN CHOOSE i \in 1..Len(rs) :
             /\ routeAccepts(rs[i], path)
             /\ \A j \in (i + 1)..Len(rs) : ~routeAccepts(rs[j], path)
    ELSE 0

\* The index Route's loop returns at, 0 when it falls through to ErrNoRoute.
routeIndex(rs, path) ==
    IF \E i \in 1..Len(rs) : routeAccepts(rs[i], path)
    THEN CHOOSE i \in 1..Len(rs) :
             /\ routeAccepts(rs[i], path)
             /\ \A j \in 1..(i - 1) : ~routeAccepts(rs[j], path)
    ELSE 0

\* The tests of RouteWithInfo's loop on one route: neither continue is taken.
routeWithInfoAccepts(route, path, info) ==
    /\ ~(route.compiled = NoMatcher \/ ~Match(route.compiled, path))
    /\ ~(route.Condition # NoCondition /\ ~Evaluate(route.Condition, info))

\* RouteWithInfo giving up at the first matching route whose condition
\* rejects (a return where the code continues).
routeWithInfoIndexStopAtReject(rs, path, info) ==
    LET i == routeIndex(rs, path) IN
    IF i # 0 /\ routeWithInfoAccepts(rs[i], path, info) THEN i ELSE 0

\* The index RouteWithInfo's loop returns at, 0 for ErrNoRoute.
routeWithInfoIndex(rs, path, info) ==
    IF \E i \in 1..Len(rs) : routeWithInfoAccepts(rs[i], path, info)
    THEN CHOOSE i \in 1..Len(rs) :
             /\ routeWithInfoAccepts(rs[i], path, info)
             /\ \A j \in 1..(i - 1) : ~routeWithInfoAccepts(rs[j], path, info)
    ELSE 0

\* Routes() returning r.routes itself: the caller's slice shares the table's array.
routesShared(rs) == [held |-> TRUE, shared |-> TRUE, data |-> <<>>]

\* What Routes() returns: a new slice with a copy of the table.
routesCopy(rs) == [held |-> TRUE, shared |-> FALSE, data |-> rs]

\* The backends a caller has: values of absfs.FileSystem, compared by identity.
Backends == {"b1", "b2"}

(***************************************************************************)
(* The backends (absfs.FileSystem), of the two kinds the repository's      *)
(* tests use.  An in-memory file system over the paths FsPaths holds at    *)
(* each path no object, a regular file with its bytes, or a directory.  A  *)
(* mock keeps nothing: every call succeeds, and every path is an empty     *)
(* regular file.  A call on a backend returns [err, value, fs]: its error, *)
(* its value (a handle, a FileInfo) and the backend's objects after the    *)
(* call.  Any call can also fail with an error of the backend's own        *)
(* ("EIO") and no effect.                                                  *)
(***************************************************************************)
PathSF == <<"/", "s", "/", "f">>
PathSG == <<"/", "s", "/", "g">>
PathDF == <<"/", "d", "/", "f">>
PathX == <<"/", "x">>
FsPaths == {PathSF, PathSG, PathDF, PathX}

NoObject == [kind |-> "none", data |-> <<>>]
File(data) == [kind |-> "file", data |-> data]
Dir == [kind |-> "dir", data |-> <<>>]
EmptyFS == [p \in FsPaths |-> NoObject]
MockFS == [p \in FsPaths |-> [kind |-> "mock", data |-> <<>>]]

\* The flags of os.OpenFile, as sets (a | b is the union).
O_RDONLY == {}
O_RDWR == {"O_RDWR"}
O_CREATE == {"O_CREATE"}
O_TRUNC == {"O_TRUNC"}

NoValue == [k |-> "none"]
Handle(b, path) == [k |-> "handle", backend |-> b, path |-> path]
Result(err, value, m) == [err |-> err, value |-> value, fs |-> m]

\* The objects below a directory.
Descendants(m, path) ==
    {q \in FsPaths : HasPrefix(q, path \o <<"/">>) /\ m[q] # NoObject}

backendOpenFile(m, b, path, flag) ==
    LET o == m[path] IN
    IF o.kind = "none" /\ ~(O_CREATE \subseteq flag)
    THEN Result("ErrNotExist", NoValue, m)
    ELSE IF o.kind = "dir" /\ flag # O_RDONLY
    THEN Result("ErrIsDir", NoValue, m)
    ELSE Result("nil", Handle(b, path),
                IF o.kind = "none" \/ (o.kind = "file" /\ O_TRUNC \subseteq flag)
                THEN [m EXCEPT ![path] = File(<<>>)] ELSE m)

backendMkdir(m, path) ==
    IF m[path] # NoObject THEN Result("ErrExist", NoValue, m)
    ELSE Result("nil", NoValue, [m EXCEPT ![path] = Dir])

backendMkdirAll(m, path) ==
    IF m[path].kind = "file" THEN Result("ErrNotDir", NoValue, m)
    ELSE Result("nil", NoValue, [m EXCEPT ![path] = Dir])

backendRemove(m, path) ==
    IF m[path] = NoObject THEN Result("ErrNotExist", NoValue, m)
    ELSE IF Descendants(m, path) # {} THEN Result("ErrNotEmpty", NoValue, m)
    ELSE Result("nil", NoValue, [m EXCEPT ![path] = NoObject])

backendRemoveAll(m, path) ==
    Result("nil", NoValue,
           [q \in FsPaths |-> IF q = path \/ q \in Descendants(m, path)
                              THEN NoObject ELSE m[q]])

backendRename(m, oldpath, newpath) ==
    IF m[oldpath] = NoObject THEN Result("ErrNotExist", NoValue, m)
    ELSE IF oldpath = newpath THEN Result("nil", NoValue, m)
    ELSE Result("nil", NoValue,
                [m EXCEPT ![newpath] = m[oldpath], ![oldpath] = NoObject])

backendStat(m, path) ==
    IF m[path] = NoObject THEN Result("ErrNotExist", NoInfo, m)
    ELSE Result("nil", FileInfo(Len(m[path].data), 0, m[path].kind = "dir"), m)

\* Chmod, Chtimes and Chown: the object's mode, times and owner are not kept.
backendChange(m, path) ==
    IF m[path] = NoObject THEN Result("ErrNotExist", NoValue, m)
    ELSE Result("nil", NoValue, m)

backendTruncate(m, path, size) ==
    IF m[path] = NoObject THEN Result("ErrNotExist", NoValue, m)
    ELSE IF m[path].kind = "dir" THEN Result("ErrIsDir", NoValue, m)
    ELSE Result("nil", NoValue,
                [m EXCEPT ![path] = File([i \in 1..size |->
                     IF i <= Len(m[path].data) THEN m[path].data[i] ELSE "0"])])

\* A call on a backend, as the facade makes it.
Call(b, op, path, path2, args) ==
    [backend |-> b, op |-> op, path |-> path, path2 |-> path2, args |-> args]

\* A mock's answer to a call.
mockCall(call) ==
    Result("nil",
           CASE call.op = "Stat" -> FileInfo(0, 0, FALSE)
             [] call.op \in {"OpenFile", "Open", "Create"} ->
                    Handle(call.backend, call.path)
             [] OTHER -> NoValue,
           MockFS)

\* handle.Write of all of a file's bytes, on a handle Create returned.
backendWrite(m, path, bytes) ==
    IF m = MockFS THEN m ELSE [m EXCEPT ![path] = File(bytes)]

\* The backend's answer to a call; failing is the backend's own failure.
backendCall(m, call, failing) ==
    IF failing THEN Result("EIO", IF call.op = "Stat" THEN NoInfo ELSE NoValue, m)
    ELSE IF m = MockFS THEN mockCall(call)
    ELSE CASE call.op = "OpenFile" ->
                  backendOpenFile(m, call.backend, call.path, call.args[1])
           [] call.op = "Open" ->
                  backendOpenFile(m, call.backend, call.path, O_RDONLY)
           [] call.op = "Create" ->
                  backendOpenFile(m, call.backend, call.path,
                                  O_RDWR \cup O_CREATE \cup O_TRUNC)
           [] call.op = "Mkdir" -> backendMkdir(m, call.path)
           [] call.op = "MkdirAll" -> backendMkdirAll(m, call.path)
           [] call.op = "Remove" -> backendRemove(m, call.path)
           [] call.op = "RemoveAll" -> backendRemoveAll(m, call.path)
           [] call.op = "Rename" -> backendRename(m, call.path, call.path2)
           [] call.op = "Stat" -> backendStat(m, call.path)
           [] call.op \in {"Chmod", "Chtimes", "Chown"} ->
                  backendChange(m, call.path)
           [] call.op = "Truncate" -> backendTruncate(m, call.path, call.args[1])

\* A call with the result the backend gave, as the log keeps it.
Logged(call, res) ==
    [backend |-> call.backend, op |-> call.op, path |-> call.path,
     path2 |-> call.path2, args |-> call.args, err |-> res.err,
     value |-> res.value]

\* SwitchFS.currentDir as New sets it.
RootDir == <<"/">>

\* The threads calling into one facade and its router.
Threads == {"t1", "t2"}

\* What a call returned to its thread: the error, the backend or the
\* route's index in the table read, the slice or the string.
NoResult == [err |-> "nil", backend |-> NilBackend, idx |-> 0, value |-> <<>>]

\* A thread that is in no call.  Of a call a thread keeps: where it is in it
\* (pc), the method (op) and its argument (arg), the number of the path a
\* facade operation is looking up (n), a local value (local: the table as a
\* writer found it, the directory Chdir is about to store), and the result
\* (res).  History: the table a lookup read (view), the tables that were the
\* router's between the lookup's call and now (window), the keys of the
\* routes whose AddRoute had returned when the lookup was called and that
\* no RemoveRoute was called for since (must).
Idle ==
    [pc |-> "idle", op |-> "none", arg |-> <<>>, n |-> 0, local |-> <<>>,
     res |-> NoResult, view |-> <<>>, window |-> {}, must |-> {}]

\* A point of lin: a working directory and the calls in progress that a
\* sequential order producing it has run.
Lin(value, applied) == [value |-> value, applied |-> applied]

\* router.mu with no holder.
Unlocked == [writer |-> "none", readers |-> {}]

\* The record of a facade call: its arguments and results.
NoFsCall ==
    [op |-> "none", path |-> <<>>, path2 |-> <<>>, args |-> <<>>,
     err |-> "nil", value |-> NoValue]

Init ==
    /\ routes = <<>>
    /\ stable = <<>>
    /\ ret = NoCall
    /\ snap = NoSnap
    /\ cond = NoCondition
    /\ defaultFS = NilBackend
    /\ disk = [b \in Backends |-> MockFS]
    /\ log = <<>>
    /\ fret = NoFsCall
    /\ currentDir = RootDir
    /\ thread = [t \in Threads |-> Idle]
    /\ mu = Unlocked
    /\ lin = {Lin(RootDir, {})}
    /\ tempDir = TmpDir
    /\ InitExt

\* The slice a caller holds, as the caller reads it: its own array, or the
\* router's when the slice shares it.
SnapView == IF snap.shared THEN routes ELSE snap.data

\* NewRouteCache(maxSize, ttl): entries is the map, a set of (path,
\* RouteIndex, Timestamp) with one entry for a path; RouteIndex counts
\* from 0 as in the Go code.
NewRouteCache(maxSize, ttl) ==
    [maxSize |-> maxSize, ttl |-> ttl, entries |-> {}, nil |-> FALSE]

CacheEntry(path, index, timestamp) ==
    [path |-> path, RouteIndex |-> index, Timestamp |-> timestamp]

\* RouteCache.Get(path) at time t: (index, ok).
cacheGet(c, path, t) ==
    IF \A e \in c.entries : e.path # path THEN [idx |-> -1, ok |-> FALSE]
    ELSE TheOne({IF c.ttl > 0 /\ t - e.Timestamp > c.ttl
                 THEN [idx |-> -1, ok |-> FALSE]
                 ELSE [idx |-> e.RouteIndex, ok |-> TRUE] :
                    e \in {x \in c.entries : x.path = path}})

\* RouteCache.evictOldest: the maps it can leave.  The loop keeps the first
\* entry it meets that no other is older than, in the map's iteration
\* order, and deletes it unless its key is the empty string.
evictOldest(entries) ==
    IF entries = {} THEN {entries}
    ELSE {IF e.path # <<>> THEN entries \ {e} ELSE entries :
             e \in {x \in entries : \A y \in entries : x.Timestamp <= y.Timestamp}}

\* RouteCache.Set keeping the entries it has when the cache is full.
cacheSetNoEvict(c, path, index, t) ==
    {[c EXCEPT !.entries = {e \in c.entries : e.path # path}
                               \cup {CacheEntry(path, index, t)}]}

\* RouteCache.Set(path, index) at time t: the caches it can leave.
cacheSet(c, path, index, t) ==
    {[c EXCEPT !.entries = {e \in kept : e.path # path}
                               \cup {CacheEntry(path, index, t)}] :
        kept \in IF Cardinality(c.entries) >= c.maxSize
                 THEN evictOldest(c.entries) ELSE {c.entries}}

\* RouteCache.Clear leaving the map as it is.
cacheClearNothing(c) == c

\* RouteCache.Clear
cacheClear(c) == [c EXCEPT !.entries = {}]

\* AddRoute and RemoveRoute after a change of the table:
\* if r.cache != nil { r.cache.Clear() }
invalidate(c) == IF c.nil THEN c ELSE cacheClear(c)

\* router.Route(path) at time t on table rs with cache c: what it returns
\* (idx is the route's place in rs, hit tells a cached index was used) and
\* the caches it can leave.
routeResult(rs, c, path, t) ==
    IF /\ ~c.nil
       /\ cacheGet(c, path, t).ok
       /\ cacheGet(c, path, t).idx >= 0
       /\ cacheGet(c, path, t).idx < Len(rs)
    THEN {[idx |-> cacheGet(c, path, t).idx + 1, hit |-> TRUE, cache |-> c]}
    ELSE IF routeIndex(rs, path) = 0
         THEN {[idx |-> 0, hit |-> FALSE, cache |-> c]}
         ELSE {[idx |-> routeIndex(rs, path), hit |-> FALSE, cache |-> c2] :
                  c2 \in IF c.nil THEN {c}
                         ELSE cacheSet(c, path, routeIndex(rs, path) - 1, t)}

\* RouteCache.Set(path, index), called on the cache itself.
CacheSet(path, index) ==
    /\ ~cache.nil
    /\ cache' \in cacheSet(cache, path, index, now)
    /\ ret' = [NoCall EXCEPT !.op = "CacheSet", !.path = path, !.idx = index]
    /\ UNCHANGED <<routes, stable, snap, cond, otherVars, ref>>

\* RouteCache.Get(path)
CacheGet(path) ==
    /\ ~cache.nil
    /\ ret' = [NoCall EXCEPT !.op = "CacheGet", !.path = path,
                  !.idx = cacheGet(cache, path, now).idx,
                  !.ok = cacheGet(cache, path, now).ok]
    /\ UNCHANGED <<routes, stable, snap, cond, fsVars>>

\* RouteCache.Clear()
CacheClear ==
    /\ ~cache.nil
    /\ cache' = cacheClear(cache)
    /\ ret' = [NoCall EXCEPT !.op = "CacheClear"]
    /\ UNCHANGED <<routes, stable, snap, cond, otherVars, ref>>

\* RouteCache.Size()
CacheSize ==
    /\ ~cache.nil
    /\ ret' = [NoCall EXCEPT !.op = "CacheSize", !.idx = Cardinality(cache.entries)]
    /\ UNCHANGED <<routes, stable, snap, cond, fsVars>>

\* make([]Route, 0) with the memory behind it tracked: array is the array
\* r.routes is a slice of (its length the slice's capacity) and no caller
\* holds a pointer.  Of a pointer RouteWithInfo returned: own tells that it
\* points into array, at slot; else it points into an array the router has
\* left, at an element that holds old.  History: selected is the route
\* RouteWithInfo selected.
NewArray ==
    [tracked |-> TRUE, array |-> <<>>, held |-> FALSE, own |-> FALSE,
     slot |-> 0, old |-> ZeroRoute, selected |-> ZeroRoute]

\* The capacity append gives the new array when the old one is full.
grow(cap) == IF cap = 0 THEN 1 ELSE 2 * cap

\* The memory after an AddRoute that found the table rs and left rs2:
\* append writes behind the last route when the array has room, else into
\* a new array, which the sort then works in; a pointer into the array the
\* router left keeps reading what that array held.
refAfterAdd(m, rs, rs2) ==
    IF ~m.tracked \/ rs2 = rs THEN m
    ELSE IF Len(rs) < Len(m.array)
    THEN [m EXCEPT !.array = rs2 \o SubSeq(m.array, Len(rs2) + 1, Len(m.array))]
    ELSE [m EXCEPT !.array = rs2 \o [i \in 1..(grow(Len(m.array)) - Len(rs2)) |-> ZeroRoute],
                   !.own = FALSE,
                   !.old = IF m.own THEN m.array[m.slot] ELSE m.old]

\* The memory after RemoveRoute took element i out of the table rs:
\* append(r.routes[:i], r.routes[i+1:]...) moves the routes behind i one
\* slot down in the table's own array and leaves the last slot as it is.
refAfterRemove(m, rs, i) ==
    IF ~m.tracked \/ i = 0 THEN m
    ELSE [m EXCEPT !.array = removeAt(rs, i) \o SubSeq(m.array, Len(rs), Len(m.array))]

\* The pointer RouteWithInfo returns for element i of the table rs:
\* route := &r.routes[i]
refAfterLookup(m, rs, i) ==
    IF ~m.tracked \/ i = 0 THEN m
    ELSE [m EXCEPT !.held = TRUE, !.own = TRUE, !.slot = i, !.selected = rs[i]]

\* What the caller reads through the pointer it holds.
deref(m) == IF m.own THEN m.array[m.slot] ELSE m.old

\* router.AddRoute(route)
AddRoute(route) ==
    LET res == addRouteResult(routes, route) IN
    /\ ret' = [NoCall EXCEPT !.op = "AddRoute", !.err = res.err,
                  !.pattern = route.Pattern, !.type = route.Type,
                  !.backend = route.Backend]
    /\ routes' = res.routes
    /\ stable' = IF res.err # "nil" THEN stable
                 ELSE StableInsert(stable, KeyOf(route))
    /\ cache' = IF res.err # "nil" THEN cache ELSE invalidate(cache)
    /\ ref' = refAfterAdd(ref, routes, res.routes)
    /\ UNCHANGED <<snap, cond, otherVars>>

\* router.RemoveRoute(pattern)
RemoveRoute(pattern) ==
    LET i == removeIndex(routes, pattern) IN
    /\ ret' = [NoCall EXCEPT !.op = "RemoveRoute", !.pattern = pattern,
                  !.err = IF i = 0 THEN "ErrNoRoute" ELSE "nil"]
    /\ IF i = 0
       THEN UNCHANGED <<routes, stable, cache>>
       ELSE /\ routes' = removeAt(routes, i)
            /\ stable' = SelectSeq(stable, LAMBDA k :
                             ~(k.Pattern = routes[i].Pattern /\ k.Type = routes[i].Type))
            /\ cache' = invalidate(cache)
    /\ ref' = refAfterRemove(ref, routes, i)
    /\ UNCHANGED <<snap, cond, otherVars>>

\* router.Route(path); ok tells that the index came from the cache.
Route(path) ==
    \E out \in routeResult(routes, cache, path, now) :
        /\ ret' = [NoCall EXCEPT !.op = "Route", !.path = path, !.idx = out.idx,
                      !.ok = out.hit,
                      !.err = IF out.idx = 0 THEN "ErrNoRoute" ELSE "nil",
                      !.backend = IF out.idx = 0 THEN NilBackend
                                  ELSE routes[out.idx].Backend]
        /\ cache' = out.cache
        /\ UNCHANGED <<routes, stable, snap, cond, otherVars, ref>>

\* router.RouteWithInfo(path, info): idx is the element of r.routes the
\* returned pointer refers to.
RouteWithInfo(path, info) ==
    LET i == routeWithInfoIndex(routes, path, info) IN
    /\ ret' = [NoCall EXCEPT !.op = "RouteWithInfo", !.path = path,
                  !.info = info, !.idx = i,
                  !.err = IF i = 0 THEN "ErrNoRoute" ELSE "nil",
                  !.backend = IF i = 0 THEN NilBackend ELSE routes[i].Backend]
    /\ ref' = refAfterLookup(ref, routes, i)
    /\ UNCHANGED <<routes, stable, snap, cond, otherVars, cache>>

\* router.Routes()
Routes ==
    /\ snap' = routesCopy(routes)
    /\ ret' = [NoCall EXCEPT !.op = "Routes"]
    /\ UNCHANGED <<routes, stable, cond, fsVars>>

\* The caller of Routes() assigns to element i of the slice it holds.
SnapSet(i, route) ==
    /\ snap.held
    /\ i \in 1..Len(SnapView)
    /\ IF snap.shared
       THEN /\ routes' = [routes EXCEPT ![i] = route]
            /\ UNCHANGED snap
       ELSE /\ snap' = [snap EXCEPT !.data[i] = route]
            /\ UNCHANGED routes
    /\ ret' = [NoCall EXCEPT !.op = "SnapSet"]
    /\ UNCHANGED <<stable, cond, fsVars>>

\* The caller exchanges elements i and j of the slice it holds.
SnapSwap(i, j) ==
    /\ snap.held
    /\ i \in 1..Len(SnapView)
    /\ j \in 1..Len(SnapView)
    /\ i < j
    /\ IF snap.shared
       THEN /\ routes' = [routes EXCEPT ![i] = routes[j], ![j] = routes[i]]
            /\ UNCHANGED snap
       ELSE /\ snap' = [snap EXCEPT !.data[i] = snap.data[j], !.data[j] = snap.data[i]]
            /\ UNCHANGED routes
    /\ ret' = [NoCall EXCEPT !.op = "SnapSwap"]
    /\ UNCHANGED <<stable, cond, fsVars>>

\* The caller reslices the slice it holds to its first k elements.
SnapTruncate(k) ==
    /\ snap.held
    /\ ~snap.shared
    /\ k \in 0..(Len(snap.data) - 1)
    /\ snap' = [snap EXCEPT !.data = SubSeq(snap.data, 1, k)]
    /\ ret' = [NoCall EXCEPT !.op = "SnapTruncate"]
    /\ UNCHANGED <<routes, stable, cond, fsVars>>

\* RouteCondition.Evaluate(path, info) on the condition the caller built;
\* idx is the number of operands it evaluated.
EvaluateCond(info) ==
    /\ cond # NoCondition
    /\ ret' = [NoCall EXCEPT !.op = "Evaluate", !.info = info,
                  !.ok = Evaluate(cond, info),
                  !.idx = operandCalls(cond, info)]
    /\ UNCHANGED <<routes, stable, snap, cond, fsVars>>

\* The depth of And/Or/Not nesting of a condition.
RECURSIVE Depth(_)
RECURSIVE MaxDepthOf(_, _)
MaxDepthOf(cs, i) ==
    IF i > Len(cs) THEN 0
    ELSE LET d == Depth(cs[i])
             r == MaxDepthOf(cs, i + 1)
         IN IF d > r THEN d ELSE r
Depth(c) ==
    CASE c.k \in {"and", "or"} -> 1 + MaxDepthOf(c.conditions, 1)
      [] c.k = "not" -> 1 + Depth(c.condition)
      [] OTHER -> 0

\* The caller wraps the condition it is building: Not(cond).
WrapNot ==
    /\ cond # NoCondition
    /\ Depth(cond) < MaxDepth
    /\ cond' = Not(cond)
    /\ ret' = NoCall
    /\ UNCHANGED <<routes, stable, snap, fsVars>>

\* The caller wraps the condition it is building: And(...) or Or(...) of the
\* operands cs.
WrapAnd(cs) ==
    /\ cond # NoCondition
    /\ Depth(cond) < MaxDepth
    /\ cond' = And(cs)
    /\ ret' = NoCall
    /\ UNCHANGED <<routes, stable, snap, fsVars>>

WrapOr(cs) ==
    /\ cond # NoCondition
    /\ Depth(cond) < MaxDepth
    /\ cond' = Or(cs)
    /\ ret' = NoCall
    /\ UNCHANGED <<routes, stable, snap, fsVars>>

(***************************************************************************)
(* The facade (SwitchFS).  A path operation returns [err, value, log,      *)
(* disk]: what the caller gets, the calls it made on backends and handles, *)
(* and the backends afterwards.                                            *)
(***************************************************************************)
\* SwitchFS.getBackend(path), mutated: the default backend, when set, wins.
getBackendDefaultFirst(rs, dflt, path) ==
    TheOne({
      IF dflt # NilBackend THEN [backend |-> dflt, err |-> "nil"]
      ELSE IF i = 0 THEN [backend |-> NilBackend, err |-> "ErrNoRoute"]
      ELSE [backend |-> rs[i].Backend, err |-> "nil"]
      : i \in {routeIndex(rs, path)} })

\* SwitchFS.getBackend(path): [backend, err]; i is the index of the route
\* router.Route(path) selects, 0 when it selects none.
getBackend(rs, dflt, path) ==
    TheOne({
      IF i = 0
      THEN IF dflt # NilBackend THEN [backend |-> dflt, err |-> "nil"]
           ELSE [backend |-> NilBackend, err |-> "ErrNoRoute"]
      ELSE [backend |-> rs[i].Backend, err |-> "nil"]
      : i \in {routeIndex(rs, path)} })

Outcome(err, value, calls, d) ==
    [err |-> err, value |-> value, log |-> calls, disk |-> d]

\* The nil result of an operation.
NilOf(op) == IF op = "Stat" THEN NoInfo ELSE NoValue

\* dispatch, mutated: the facade checks that the object exists before the call.
dispatchStatFirst(rs, dflt, d, name, op, args, failing) ==
    TheOne({
      IF sel.err # "nil" THEN Outcome(sel.err, NilOf(op), <<>>, d)
      ELSE TheOne({
             Outcome(res.err, res.value,
                     <<Logged(Call(sel.backend, "Stat", name, <<>>, <<>>), st),
                       Logged(Call(sel.backend, op, name, <<>>, args), res)>>,
                     [d EXCEPT ![sel.backend] = res.fs])
             : st \in {backendCall(d[sel.backend],
                                   Call(sel.backend, "Stat", name, <<>>, <<>>),
                                   FALSE)},
               res \in {backendCall(d[sel.backend],
                                    Call(sel.backend, op, name, <<>>, args),
                                    failing)} })
      : sel \in {getBackend(rs, dflt, name)} })

\* dispatch, mutated: a backend error is reported as no error.
dispatchSwallowError(rs, dflt, d, name, op, args, failing) ==
    TheOne({
      IF sel.err # "nil" THEN Outcome(sel.err, NilOf(op), <<>>, d)
      ELSE TheOne({
             Outcome("nil", res.value,
                     <<Logged(Call(sel.backend, op, name, <<>>, args), res)>>,
                     [d EXCEPT ![sel.backend] = res.fs])
             : res \in {backendCall(d[sel.backend],
                                    Call(sel.backend, op, name, <<>>, args),
                                    failing)} })
      : sel \in {getBackend(rs, dflt, name)} })

\* The body the path operations other than Rename share: select the backend
\* of name (sel), make the one call op(name, args) on it, return what it
\* returns (res).
dispatch(rs, dflt, d, name, op, args, failing) ==
    TheOne({
      IF sel.err # "nil" THEN Outcome(sel.err, NilOf(op), <<>>, d)
      ELSE TheOne({
             Outcome(res.err, res.value,
                     <<Logged(Call(sel.backend, op, name, <<>>, args), res)>>,
                     [d EXCEPT ![sel.backend] = res.fs])
             : res \in {backendCall(d[sel.backend],
                                    Call(sel.backend, op, name, <<>>, args),
                                    failing)} })
      : sel \in {getBackend(rs, dflt, name)} })

\* handle.Close(), as the log keeps it; again is TRUE for a handle that was
\* closed before.
Closed(handle, err) ==
    Logged(Call(handle.backend, "Close", handle.path, <<>>, <<>>),
           Result(err, NoValue, <<>>))

\* io.Copy(dst, src), mutated: the last byte read is not written.
copyBytesShort(data, failing, written) ==
    IF failing
    THEN SubSeq(data, 1, IF written < Len(data) THEN written ELSE Len(data))
    ELSE SubSeq(data, 1, Len(data) - 1)

\* io.Copy(dst, src): the bytes read from the source's file are written to
\* the destination's; when it fails, after `written` bytes.
copyBytes(data, failing, written) ==
    IF failing
    THEN SubSeq(data, 1, IF written < Len(data) THEN written ELSE Len(data))
    ELSE data

\* The end of crossBackendMove, mutated: the source is removed before the
\* destination is closed.
finishMoveRemoveBeforeClose(d, calls, oldpath, oldBackend, src, dst, copyErr, fault) ==
    IF copyErr # "nil"
    THEN Outcome(copyErr, NoValue,
                 calls \o <<Closed(dst, "nil"), Closed(src, "nil")>>, d)
    ELSE TheOne({
           IF rm.err # "nil"
           THEN Outcome(rm.err, NoValue,
                        calls \o <<Logged(Call(oldBackend, "Remove", oldpath, <<>>, <<>>), rm),
                                   Closed(dst, "nil"), Closed(src, "nil")>>,
                        [d EXCEPT ![oldBackend] = rm.fs])
           ELSE Outcome(closeErr, NoValue,
                        calls \o <<Logged(Call(oldBackend, "Remove", oldpath, <<>>, <<>>), rm),
                                   Closed(dst, closeErr), Closed(dst, "ErrClosed"),
                                   Closed(src, "nil")>>,
                        [d EXCEPT ![oldBackend] = rm.fs])
           : rm \in {backendCall(d[oldBackend],
                                 Call(oldBackend, "Remove", oldpath, <<>>, <<>>),
                                 fault = 6)},
             closeErr \in {IF fault = 5 THEN "EIO" ELSE "nil"} })

\* The end of crossBackendMove, from the result of io.Copy on: close the
\* destination, remove the source (rm), and run the deferred Close calls (the
\* destination's, a second time, then the source's) on the way out.
finishMove(d, calls, oldpath, oldBackend, src, dst, copyErr, fault) ==
    IF copyErr # "nil"
    THEN Outcome(copyErr, NoValue,
                 calls \o <<Closed(dst, "nil"), Closed(src, "nil")>>, d)
    ELSE IF fault = 5
    THEN Outcome("EIO", NoValue,
                 calls \o <<Closed(dst, "EIO"),
                            Closed(dst, "ErrClosed"), Closed(src, "nil")>>, d)
    ELSE TheOne({
           Outcome(rm.err, NoValue,
                   calls \o <<Closed(dst, "nil"),
                              Logged(Call(oldBackend, "Remove", oldpath, <<>>, <<>>), rm),
                              Closed(dst, "ErrClosed"), Closed(src, "nil")>>,
                   [d EXCEPT ![oldBackend] = rm.fs])
           : rm \in {backendCall(d[oldBackend],
                                 Call(oldBackend, "Remove", oldpath, <<>>, <<>>),
                                 fault = 6)} })

\* crossBackendMove, the copy: io.Copy(dst, src) writes bytes to the
\* destination, then the end of the move.
copyData(d, calls, oldpath, newpath, oldBackend, newBackend, src, dst, fault, written) ==
    TheOne({
      finishMove(copied,
                 Append(calls, Logged(Call(newBackend, "Copy", newpath, oldpath, <<>>),
                                      Result(IF fault = 4 THEN "EIO" ELSE "nil",
                                             Len(bytes), <<>>))),
                 oldpath, oldBackend, src, dst,
                 IF fault = 4 THEN "EIO" ELSE "nil", fault)
      : bytes \in {copyBytes(d[oldBackend][oldpath].data, fault = 4, written)},
        copied \in {[b \in Backends |->
                       IF b = newBackend
                       THEN backendWrite(d[b], newpath,
                                copyBytes(d[oldBackend][oldpath].data,
                                          fault = 4, written))
                       ELSE d[b]]} })

\* crossBackendMove, the destination, mutated: a failing Create returns
\* without the deferred Close of the source.
createDestinationLeakSource(d, calls, oldpath, newpath, oldBackend, newBackend, src, fault, written) ==
    TheOne({
      IF created.err # "nil"
      THEN Outcome(created.err, NoValue,
                   calls \o <<Logged(Call(newBackend, "Create", newpath, <<>>, <<>>),
                                     created)>>,
                   [d EXCEPT ![newBackend] = created.fs])
      ELSE TheOne({
             copyData(after,
                      Append(calls, Logged(Call(newBackend, "Create", newpath, <<>>, <<>>),
                                           created)),
                      oldpath, newpath, oldBackend, newBackend, src,
                      created.value, fault, written)
             : after \in {[d EXCEPT ![newBackend] = created.fs]} })
      : created \in {backendCall(d[newBackend],
                                 Call(newBackend, "Create", newpath, <<>>, <<>>),
                                 fault = 3)} })

\* crossBackendMove, the destination: newBackend.Create(newpath); when it
\* fails the deferred Close of the source runs.
createDestination(d, calls, oldpath, newpath, oldBackend, newBackend, src, fault, written) ==
    TheOne({
      IF created.err # "nil"
      THEN Outcome(created.err, NoValue,
                   calls \o <<Logged(Call(newBackend, "Create", newpath, <<>>, <<>>),
                                     created),
                              Closed(src, "nil")>>,
                   [d EXCEPT ![newBackend] = created.fs])
      ELSE TheOne({
             copyData(after,
                      Append(calls, Logged(Call(newBackend, "Create", newpath, <<>>, <<>>),
                                           created)),
                      oldpath, newpath, oldBackend, newBackend, src,
                      created.value, fault, written)
             : after \in {[d EXCEPT ![newBackend] = created.fs]} })
      : created \in {backendCall(d[newBackend],
                                 Call(newBackend, "Create", newpath, <<>>, <<>>),
                                 fault = 3)} })

\* crossBackendMove, the source: oldBackend.Open(oldpath).
openSource(d, calls, oldpath, newpath, oldBackend, newBackend, fault, written) ==
    TheOne({
      IF opened.err # "nil"
      THEN Outcome(opened.err, NoValue,
                   Append(calls, Logged(Call(oldBackend, "Open", oldpath, <<>>, <<>>),
                                        opened)), d)
      ELSE createDestination(d,
               Append(calls, Logged(Call(oldBackend, "Open", oldpath, <<>>, <<>>),
                                    opened)),
               oldpath, newpath, oldBackend, newBackend, opened.value,
               fault, written)
      : opened \in {backendCall(d[oldBackend],
                                Call(oldBackend, "Open", oldpath, <<>>, <<>>),
                                fault = 2)} })

\* SwitchFS.crossBackendMove.  fault numbers the step at which the backend
\* fails (1 Stat, 2 Open, 3 Create, 4 io.Copy, 5 Close of the destination,
\* 6 Remove; 0 for none), written the bytes a failing copy has written.
crossBackendMove(d, oldpath, newpath, oldBackend, newBackend, fault, written) ==
    TheOne({
      IF st.err # "nil"
      THEN Outcome(st.err, NoValue,
                   <<Logged(Call(oldBackend, "Stat", oldpath, <<>>, <<>>), st)>>, d)
      ELSE IF st.value.isDir
      THEN Outcome("ErrCrossBackendOperation", NoValue,
                   <<Logged(Call(oldBackend, "Stat", oldpath, <<>>, <<>>), st)>>, d)
      ELSE openSource(d, <<Logged(Call(oldBackend, "Stat", oldpath, <<>>, <<>>), st)>>,
                      oldpath, newpath, oldBackend, newBackend, fault, written)
      : st \in {backendCall(d[oldBackend],
                            Call(oldBackend, "Stat", oldpath, <<>>, <<>>),
                            fault = 1)} })

\* The native rename of SwitchFS.Rename: backend.Rename(oldpath, newpath).
nativeRename(d, oldpath, newpath, backend, fault) ==
    TheOne({
      Outcome(res.err, NoValue,
              <<Logged(Call(backend, "Rename", oldpath, newpath, <<>>), res)>>,
              [d EXCEPT ![backend] = res.fs])
      : res \in {backendCall(d[backend],
                             Call(backend, "Rename", oldpath, newpath, <<>>),
                             fault = 1)} })

\* SwitchFS.Rename, mutated: an unrouted destination is renamed to on the
\* source's backend.
renameNoDestinationCheck(rs, dflt, d, oldpath, newpath, fault, written) ==
    TheOne({
      IF old.err # "nil" THEN Outcome(old.err, NoValue, <<>>, d)
      ELSE IF new.err # "nil" \/ old.backend = new.backend
      THEN nativeRename(d, oldpath, newpath, old.backend, fault)
      ELSE crossBackendMove(d, oldpath, newpath, old.backend, new.backend,
                            fault, written)
      : old \in {getBackend(rs, dflt, oldpath)},
        new \in {getBackend(rs, dflt, newpath)} })

\* SwitchFS.Rename, mutated: every rename is a copy and a remove.
renameAlwaysCopy(rs, dflt, d, oldpath, newpath, fault, written) ==
    TheOne({
      IF old.err # "nil" THEN Outcome(old.err, NoValue, <<>>, d)
      ELSE IF new.err # "nil" THEN Outcome(new.err, NoValue, <<>>, d)
      ELSE crossBackendMove(d, oldpath, newpath, old.backend, new.backend,
                            fault, written)
      : old \in {getBackend(rs, dflt, oldpath)},
        new \in {getBackend(rs, dflt, newpath)} })

\* SwitchFS.Rename: the backends of both paths are selected (old, new); one
\* backend renames natively, two are a cross-backend move.
rename(rs, dflt, d, oldpath, newpath, fault, written) ==
    TheOne({
      IF old.err # "nil" THEN Outcome(old.err, NoValue, <<>>, d)
      ELSE IF new.err # "nil" THEN Outcome(new.err, NoValue, <<>>, d)
      ELSE IF old.backend = new.backend
      THEN nativeRename(d, oldpath, newpath, old.backend, fault)
      ELSE crossBackendMove(d, oldpath, newpath, old.backend, new.backend,
                            fault, written)
      : old \in {getBackend(rs, dflt, oldpath)},
        new \in {getBackend(rs, dflt, newpath)} })

\* A facade operation returns: what it returned (out), the calls it made and
\* the backends afterwards are recorded.
Returns(op, path, path2, args, result) ==
    \E out \in {result} :
        /\ fret' = [op |-> op, path |-> path, path2 |-> path2, args |-> args,
                    err |-> out.err, value |-> out.value]
        /\ log' = out.log
        /\ disk' = out.disk
        /\ UNCHANGED <<routes, stable, ret, snap, cond, defaultFS, tempDir,
                       currentDir, thread, mu, lin, extVars>>

\* filepath.IsAbs(path) (forward-slash platform)
IsAbs(path) == HasPrefix(path, <<"/">>)

\* filepath.Join(a, b): the non-empty elements joined by a separator, then
\* cleaned; the empty string when both are empty.
Join(a, b) ==
    IF a = <<>> /\ b = <<>> THEN <<>>
    ELSE IF a = <<>> THEN Clean(b)
    ELSE IF b = <<>> THEN Clean(a)
    ELSE Clean(a \o <<"/">> \o b)

\* SwitchFS.Chdir, mutated: a relative argument is not joined to the
\* working directory.
chdirNoJoin(cwd, dir) == Clean(dir)

\* SwitchFS.Chdir(dir): the value it stores in fs.currentDir.
chdir(cwd, dir) == Clean(IF ~IsAbs(dir) THEN Join(cwd, dir) ELSE dir)

\* The longest working directory the model follows.
MaxDirLen == 4

\* SwitchFS.Chdir(dir)
Chdir(dir) ==
    /\ Len(chdir(currentDir, dir)) <= MaxDirLen
    /\ currentDir' = chdir(currentDir, dir)
    /\ fret' = [op |-> "Chdir", path |-> dir, path2 |-> <<>>, args |-> <<>>,
                err |-> "nil", value |-> NoValue]
    /\ log' = <<>>
    /\ UNCHANGED <<routes, stable, ret, snap, cond, defaultFS, tempDir, disk, thread,
                   mu, lin, extVars>>

\* SwitchFS.Getwd()
Getwd ==
    /\ fret' = [op |-> "Getwd", path |-> <<>>, path2 |-> <<>>, args |-> <<>>,
                err |-> "nil", value |-> currentDir]
    /\ log' = <<>>
    /\ UNCHANGED <<routes, stable, ret, snap, cond, defaultFS, tempDir, disk,
                   currentDir, thread, mu, lin, extVars>>

\* The nil Router.
NilRouter == "nil"

\* The options of New: WithDefault(backend), WithRoute(pattern, backend,
\* opts...) given as the Route its route options build, WithTempDir(dir)
\* and WithRouter(router), a router given as the table it holds.
NoOption == [kind |-> "none", backend |-> NilBackend, route |-> <<>>,
             dir |-> <<>>, router |-> NilRouter]
WithDefault(backend) == [NoOption EXCEPT !.kind = "default", !.backend = backend]
WithRoute(route) == [NoOption EXCEPT !.kind = "route", !.route = route]
WithTempDir(dir) == [NoOption EXCEPT !.kind = "tempDir", !.dir = dir]
WithRouter(router) == [NoOption EXCEPT !.kind = "router", !.router = router]

\* An option applied to the facade New is building: the error it returns
\* and the facade's fields afterwards.
applyOption(fs, opt) ==
    CASE opt.kind = "default" ->
             IF opt.backend = NilBackend THEN [fs EXCEPT !.err = "ErrNilBackend"]
             ELSE [fs EXCEPT !.defaultFS = opt.backend]
      [] opt.kind = "route" ->
             TheOne({[fs EXCEPT !.err = out.err, !.routes = out.routes] :
                        out \in {addRouteResult(fs.routes, opt.route)}})
      [] opt.kind = "tempDir" -> [fs EXCEPT !.tempDir = opt.dir]
      [] opt.kind = "router" ->
             IF opt.router = NilRouter THEN [fs EXCEPT !.err = "ErrNilBackend"]
             ELSE [fs EXCEPT !.routes = opt.router]

\* New: the facade before the options, with NewRouter()'s empty table.
newFacade ==
    [err |-> "nil", routes |-> <<>>, defaultFS |-> NilBackend, tempDir |-> TmpDir]

\* New(opts...): the options applied in order to a facade with a new
\* router, up to the first that fails.
RECURSIVE new(_, _, _)
new(opts, i, fs) ==
    IF i > Len(opts) \/ fs.err # "nil" THEN fs
    ELSE new(opts, i + 1, applyOption(fs, opts[i]))

\* fs, err := New(opts...): the facade is the one New returns, when it
\* returns one.
New(opts) ==
    \E out \in {new(opts, 1, newFacade)} :
        /\ fret' = [op |-> "New", path |-> <<>>, path2 |-> <<>>, args |-> opts,
                    err |-> out.err, value |-> NoValue]
        /\ IF out.err = "nil"
           THEN /\ routes' = out.routes
                /\ stable' = [i \in 1..Len(out.routes) |-> KeyOf(out.routes[i])]
                /\ defaultFS' = out.defaultFS
                /\ tempDir' = out.tempDir
                /\ currentDir' = RootDir
           ELSE UNCHANGED <<routes, stable, defaultFS, tempDir, currentDir>>
        /\ log' = <<>>
        /\ UNCHANGED <<ret, snap, cond, disk, thread, mu, lin, extVars>>

\* SwitchFS.TempDir()
TempDir ==
    /\ fret' = [op |-> "TempDir", path |-> <<>>, path2 |-> <<>>, args |-> <<>>,
                err |-> "nil", value |-> tempDir]
    /\ log' = <<>>
    /\ UNCHANGED <<routes, stable, ret, snap, cond, defaultFS, tempDir, disk,
                   currentDir, thread, mu, lin, extVars>>

\* rewriter.Rewrite(path) called on a rewriter the caller built.
CallRewrite(rewriter, path) ==
    /\ fret' = [op |-> "Rewrite", path |-> path, path2 |-> <<>>, args |-> rewriter,
                err |-> "nil", value |-> Rewrite(rewriter, path)]
    /\ log' = <<>>
    /\ UNCHANGED <<routes, stable, ret, snap, cond, defaultFS, tempDir, disk,
                   currentDir, thread, mu, lin, extVars>>

\* SwitchFS.OpenFile(name, flag, perm)
OpenFile(name, flag, perm, failing) ==
    Returns("OpenFile", name, <<>>, <<flag, perm>>,
            dispatch(routes, defaultFS, disk, name, "OpenFile", <<flag, perm>>,
                     failing))

\* SwitchFS.Open(name): OpenFile(name, os.O_RDONLY, 0)
Open(name, failing) ==
    Returns("Open", name, <<>>, <<>>,
            dispatch(routes, defaultFS, disk, name, "OpenFile", <<O_RDONLY, 0>>,
                     failing))

\* SwitchFS.Create(name): OpenFile(name, os.O_RDWR|os.O_CREATE|os.O_TRUNC, 0666)
Create(name, failing) ==
    Returns("Create", name, <<>>, <<>>,
            dispatch(routes, defaultFS, disk, name, "OpenFile",
                     <<O_RDWR \cup O_CREATE \cup O_TRUNC, 438>>, failing))

\* SwitchFS.Mkdir(name, perm)
Mkdir(name, perm, failing) ==
    Returns("Mkdir", name, <<>>, <<perm>>,
            dispatch(routes, defaultFS, disk, name, "Mkdir", <<perm>>, failing))

\* SwitchFS.MkdirAll(name, perm)
MkdirAll(name, perm, failing) ==
    Returns("MkdirAll", name, <<>>, <<perm>>,
            dispatch(routes, defaultFS, disk, name, "MkdirAll", <<perm>>, failing))

\* SwitchFS.Remove(name)
Remove(name, failing) ==
    Returns("Remove", name, <<>>, <<>>,
            dispatch(routes, defaultFS, disk, name, "Remove", <<>>, failing))

\* SwitchFS.RemoveAll(path)
RemoveAll(path, failing) ==
    Returns("RemoveAll", path, <<>>, <<>>,
            dispatch(routes, defaultFS, disk, path, "RemoveAll", <<>>, failing))

\* SwitchFS.Rename(oldpath, newpath)
Rename(oldpath, newpath, fault, written) ==
    Returns("Rename", oldpath, newpath, <<>>,
            rename(routes, defaultFS, disk, oldpath, newpath, fault, written))

\* SwitchFS.Stat(name)
Stat(name, failing) ==
    Returns("Stat", name, <<>>, <<>>,
            dispatch(routes, defaultFS, disk, name, "Stat", <<>>, failing))

\* SwitchFS.Chmod(name, mode)
Chmod(name, mode, failing) ==
    Returns("Chmod", name, <<>>, <<mode>>,
            dispatch(routes, defaultFS, disk, name, "Chmod", <<mode>>, failing))

\* SwitchFS.Chtimes(name, atime, mtime)
Chtimes(name, atime, mtime, failing) ==
    Returns("Chtimes", name, <<>>, <<atime, mtime>>,
            dispatch(routes, defaultFS, disk, name, "Chtimes", <<atime, mtime>>,
                     failing))

\* SwitchFS.Chown(name, uid, gid)
Chown(name, uid, gid, failing) ==
    Returns("Chown", name, <<>>, <<uid, gid>>,
            dispatch(routes, defaultFS, disk, name, "Chown", <<uid, gid>>,
                     failing))

\* SwitchFS.Truncate(name, size)
Truncate(name, size, failing) ==
    Returns("Truncate", name, <<>>, <<size>>,
            dispatch(routes, defaultFS, disk, name, "Truncate", <<size>>, failing))

(***************************************************************************)
(* Threads.  A call is a sequence of steps of the thread that makes it;    *)
(* the steps of different threads interleave.  router.mu is a              *)
(* sync.RWMutex: Lock waits until no thread holds it, RLock until no       *)
(* writer does.                                                            *)
(***************************************************************************)
\* What a step of a thread leaves alone besides the variables it names.
ThreadFrame ==
    UNCHANGED <<ret, snap, cond, defaultFS, tempDir, disk, log, fret, extVars>>

\* A thread can make a call: it is in none.
Free(t) == thread[t].pc \in {"idle", "done"}

\* r.mu.Lock() returns.
canLock(m) == m.writer = "none" /\ m.readers = {}

\* r.mu.RLock() returning whoever holds the lock.
canRLockAlways(m) == TRUE

\* r.mu.RLock() returns.
canRLock(m) == m.writer = "none"

\* r.mu.RUnlock() leaving the lock held.
runlockKeep(m, t) == m

\* r.mu.RUnlock() by thread t
runlock(m, t) == [m EXCEPT !.readers = @ \ {t}]

\* The methods that look a path up or list the table, under the read lock.
RouterLookups == {"Route", "RouteWithInfo", "Routes"}
FacadeLookups == {"PathOp", "Rename"}

\* The thread is in a lookup of the router, between its call and its return.
InLookup(t) ==
    /\ thread[t].op \in RouterLookups
    /\ thread[t].pc \in {"get", "hitlock", "hit", "hitunlock",
                         "rlock", "read", "set", "runlock"}

\* History: the table of the router as the last writer left it (a writer that
\* holds the lock has the table it found in local).
Committed == IF mu.writer = "none" THEN routes ELSE thread[mu.writer].local

\* History: the keys of the routes whose AddRoute has returned and for which
\* no RemoveRoute was called since.
Settled ==
    UNION {thread[u].must : u \in {v \in Threads : thread[v].pc = "done"}}

\* AddRoute(route) is called by t: the checks before the lock.
CallAddRoute(t, route) ==
    /\ Free(t)
    /\ thread' = [thread EXCEPT ![t] =
           IF route.Backend = NilBackend
           THEN [Idle EXCEPT !.pc = "done", !.op = "AddRoute", !.arg = route,
                             !.res.err = "ErrNilBackend"]
           ELSE TheOne({
                  IF c.err # "nil"
                  THEN [Idle EXCEPT !.pc = "done", !.op = "AddRoute",
                                    !.arg = route, !.res.err = c.err]
                  ELSE [Idle EXCEPT !.pc = "lock", !.op = "AddRoute",
                                    !.arg = [route EXCEPT !.compiled = c.matcher]]
                  : c \in {compileMatcher(route.Pattern, route.Type)} })]
    /\ UNCHANGED <<routes, stable, mu, currentDir, lin>>
    /\ ThreadFrame

\* RemoveRoute(pattern) is called by t.
CallRemoveRoute(t, pattern) ==
    /\ Free(t)
    /\ thread' = [u \in Threads |->
           IF u = t
           THEN [Idle EXCEPT !.pc = "lock", !.op = "RemoveRoute", !.arg = pattern]
           ELSE [thread[u] EXCEPT !.must = {k \in @ : k.Pattern # pattern}]]
    /\ UNCHANGED <<routes, stable, mu, currentDir, lin>>
    /\ ThreadFrame

\* r.mu.Lock() in AddRoute and RemoveRoute
Lock(t) ==
    /\ thread[t].pc = "lock"
    /\ canLock(mu)
    /\ mu' = [mu EXCEPT !.writer = t]
    /\ thread' = [thread EXCEPT
           ![t].pc = IF thread[t].op = "AddRoute" THEN "check" ELSE "find",
           ![t].local = routes]
    /\ UNCHANGED <<routes, stable, currentDir, lin>>
    /\ ThreadFrame

\* AddRoute: the loop that checks for a duplicate.
AddCheck(t) ==
    /\ thread[t].pc = "check"
    /\ thread' = [thread EXCEPT ![t] =
           IF isDuplicate(routes, thread[t].arg)
           THEN [@ EXCEPT !.pc = "unlock", !.res.err = "ErrDuplicateRoute"]
           ELSE [@ EXCEPT !.pc = "append"]]
    /\ UNCHANGED <<routes, stable, mu, currentDir, lin>>
    /\ ThreadFrame

\* AddRoute: r.routes = append(r.routes, route)
AddAppend(t) ==
    /\ thread[t].pc = "append"
    /\ routes' = Append(routes, thread[t].arg)
    /\ stable' = StableInsert(stable, KeyOf(thread[t].arg))
    /\ thread' = [thread EXCEPT ![t].pc = "sort"]
    /\ UNCHANGED <<mu, currentDir, lin>>
    /\ ThreadFrame

\* AddRoute: sort.Slice(r.routes, ...)
AddSort(t) ==
    /\ thread[t].pc = "sort"
    /\ routes' = SortSlice(routes)
    /\ thread' = [thread EXCEPT ![t].pc = IF cache.nil THEN "unlock" ELSE "clear"]
    /\ UNCHANGED <<stable, mu, currentDir, lin>>
    /\ ThreadFrame

\* RemoveRoute: the loop finds the route and append(r.routes[:i],
\* r.routes[i+1:]...) moves the routes behind it one place down, in the
\* table's own array.
RemoveFind(t) ==
    /\ thread[t].pc = "find"
    /\ \E i \in {removeIndex(routes, thread[t].arg)} :
           IF i = 0
           THEN /\ thread' = [thread EXCEPT ![t].pc = "unlock",
                                            ![t].res.err = "ErrNoRoute"]
                /\ UNCHANGED <<routes, stable>>
           ELSE /\ routes' = Append(removeAt(routes, i), routes[Len(routes)])
                /\ stable' = SelectSeq(stable, LAMBDA k :
                                 ~(k.Pattern = routes[i].Pattern /\ k.Type = routes[i].Type))
                /\ thread' = [thread EXCEPT ![t].pc = "reslice"]
    /\ UNCHANGED <<mu, currentDir, lin>>
    /\ ThreadFrame

\* RemoveRoute: r.routes = (the slice append returned, one route shorter)
RemoveReslice(t) ==
    /\ thread[t].pc = "reslice"
    /\ routes' = SubSeq(routes, 1, Len(routes) - 1)
    /\ thread' = [thread EXCEPT ![t].pc = IF cache.nil THEN "unlock" ELSE "clear"]
    /\ UNCHANGED <<stable, mu, currentDir, lin>>
    /\ ThreadFrame

\* What a step of a thread on the cache leaves alone.
CacheFrame ==
    UNCHANGED <<ret, snap, cond, defaultFS, tempDir, disk, log, fret,
                now, ref, health, stats>>

\* AddRoute and RemoveRoute, the table changed: r.cache.Clear(), under the
\* router's write lock.
ClearStep(t) ==
    /\ thread[t].pc = "clear"
    /\ cache' = cacheClear(cache)
    /\ thread' = [thread EXCEPT ![t].pc = "unlock"]
    /\ UNCHANGED <<routes, stable, mu, currentDir, lin>>
    /\ CacheFrame

\* The deferred r.mu.Unlock() of AddRoute and RemoveRoute, and the return.
Unlock(t) ==
    /\ thread[t].pc = "unlock"
    /\ mu' = [mu EXCEPT !.writer = "none"]
    /\ thread' = [u \in Threads |->
           IF u = t
           THEN [thread[t] EXCEPT
                    !.pc = "done",
                    !.must = IF /\ thread[t].op = "AddRoute"
                                /\ thread[t].res.err = "nil"
                                /\ \A v \in Threads \ {t} :
                                       ~(/\ thread[v].op = "RemoveRoute"
                                         /\ thread[v].pc # "done"
                                         /\ thread[v].arg = thread[t].arg.Pattern)
                             THEN {KeyOf(thread[t].arg)} ELSE {}]
           ELSE IF InLookup(u)
           THEN [thread[u] EXCEPT !.window = @ \cup {routes}]
           ELSE thread[u]]
    /\ UNCHANGED <<routes, stable, currentDir, lin>>
    /\ ThreadFrame

\* Route(path), RouteWithInfo(path, info) or Routes() is called by t, or a
\* path operation of the facade, which calls getBackend (Rename for two
\* paths, one after the other).
CallLookup(t, op, arg) ==
    /\ Free(t)
    /\ thread' = [thread EXCEPT ![t] =
           [Idle EXCEPT !.pc = IF op = "Route" /\ ~cache.nil THEN "get" ELSE "rlock",
                        !.op = op, !.arg = arg, !.n = 1,
                        !.window = {Committed}, !.must = Settled]]
    /\ UNCHANGED <<routes, stable, mu, currentDir, lin>>
    /\ ThreadFrame

\* r.mu.RLock()
RLock(t) ==
    /\ thread[t].pc = "rlock"
    /\ canRLock(mu)
    /\ mu' = [mu EXCEPT !.readers = @ \cup {t}]
    /\ thread' = [thread EXCEPT ![t].pc = "read"]
    /\ UNCHANGED <<routes, stable, currentDir, lin>>
    /\ ThreadFrame

\* What a lookup finds, were the read lock exclusive: a reader that finds
\* another one at work gives up.
lookupExclusive(op, arg, n, rs) ==
    IF Cardinality(mu.readers) > 1 THEN [NoResult EXCEPT !.err = "ErrBusy"]
    ELSE IF op = "Routes" THEN [NoResult EXCEPT !.value = rs]
    ELSE TheOne({
           [NoResult EXCEPT !.idx = i,
                            !.err = IF i = 0 THEN "ErrNoRoute" ELSE "nil",
                            !.backend = IF i = 0 THEN NilBackend ELSE rs[i].Backend]
           : i \in {IF op = "RouteWithInfo"
                    THEN routeWithInfoIndex(rs, arg[1], arg[2])
                    ELSE routeIndex(rs, arg[n])} })

\* What a lookup finds in the table rs.
lookup(op, arg, n, rs) ==
    IF op = "Routes" THEN [NoResult EXCEPT !.value = rs]
    ELSE TheOne({
           [NoResult EXCEPT !.idx = i,
                            !.err = IF i = 0 THEN "ErrNoRoute" ELSE "nil",
                            !.backend = IF i = 0 THEN NilBackend ELSE rs[i].Backend]
           : i \in {IF op = "RouteWithInfo"
                    THEN routeWithInfoIndex(rs, arg[1], arg[2])
                    ELSE routeIndex(rs, arg[n])} })

\* The loop of Route and of RouteWithInfo, the copy of Routes.
Read(t) ==
    /\ thread[t].pc = "read"
    /\ thread' = [thread EXCEPT ![t] = TheOne({
           [@ EXCEPT !.pc = IF /\ thread[t].op = "Route" /\ ~cache.nil
                               /\ res.idx # 0
                            THEN "set" ELSE "runlock",
                     !.view = routes,
                     !.res = res]
           : res \in {lookup(thread[t].op, thread[t].arg, thread[t].n, routes)} })]
    /\ UNCHANGED <<routes, stable, mu, currentDir, lin>>
    /\ ThreadFrame

\* Route on a router with a cache, before any lock of the router:
\* idx, ok := r.cache.Get(path).  Until the table is read res.idx holds the
\* cached index, counted from 1.
CacheGetStep(t) ==
    /\ thread[t].pc = "get"
    /\ thread' = [thread EXCEPT ![t] = TheOne({
           IF got.ok THEN [@ EXCEPT !.pc = "hitlock", !.res.idx = got.idx + 1]
           ELSE [@ EXCEPT !.pc = "rlock"]
           : got \in {cacheGet(cache, thread[t].arg[1], now)} })]
    /\ UNCHANGED <<routes, stable, mu, currentDir, lin>>
    /\ ThreadFrame

\* Route, the cache had the path: r.mu.RLock()
HitRLock(t) ==
    /\ thread[t].pc = "hitlock"
    /\ canRLock(mu)
    /\ mu' = [mu EXCEPT !.readers = @ \cup {t}]
    /\ thread' = [thread EXCEPT ![t].pc = "hit"]
    /\ UNCHANGED <<routes, stable, currentDir, lin>>
    /\ ThreadFrame

\* What Route reads at a cached index (counted from 1) of the table rs:
\* if idx >= 0 && idx < len(r.routes) { backend := r.routes[idx].Backend }
hitRead(rs, idx) ==
    IF idx - 1 >= 0 /\ idx - 1 < Len(rs)
    THEN [NoResult EXCEPT !.idx = idx, !.backend = rs[idx].Backend]
    ELSE NoResult

\* Route, the cache had the path: the read of the table at the cached index.
HitRead(t) ==
    /\ thread[t].pc = "hit"
    /\ thread' = [thread EXCEPT ![t].pc = "hitunlock",
                                ![t].view = routes,
                                ![t].res = hitRead(routes, thread[t].res.idx)]
    /\ UNCHANGED <<routes, stable, mu, currentDir, lin>>
    /\ ThreadFrame

\* Route, the cache had the path: r.mu.RUnlock(), and the return of the
\* backend read, or the loop when the index was out of the table.
HitRUnlock(t) ==
    /\ thread[t].pc = "hitunlock"
    /\ mu' = runlock(mu, t)
    /\ thread' = [thread EXCEPT
           ![t].pc = IF thread[t].res.idx # 0 THEN "done" ELSE "rlock"]
    /\ UNCHANGED <<routes, stable, currentDir, lin>>
    /\ ThreadFrame

\* Route's loop, a route matched: r.cache.Set(path, i), under the router's
\* read lock.
CacheSetStep(t) ==
    /\ thread[t].pc = "set"
    /\ cache' \in cacheSet(cache, thread[t].arg[1], thread[t].res.idx - 1, now)
    /\ thread' = [thread EXCEPT ![t].pc = "runlock"]
    /\ UNCHANGED <<routes, stable, mu, currentDir, lin>>
    /\ CacheFrame

\* Where a thread goes on after the router's lookup returned: a call on the
\* router is done; getBackend falls back to the default backend, and the
\* facade returns its error, looks the second path of a Rename up, or calls
\* the backend.
afterLookup(rec, dflt) ==
    IF rec.op \in RouterLookups THEN [rec EXCEPT !.pc = "done"]
    ELSE IF rec.res.err # "nil" /\ dflt = NilBackend
    THEN [rec EXCEPT !.pc = "done"]
    ELSE IF rec.op = "Rename" /\ rec.n = 1
    THEN [rec EXCEPT !.pc = "rlock", !.n = 2]
    ELSE [rec EXCEPT !.pc = "backend",
                     !.res.err = "nil",
                     !.res.backend = IF rec.res.err # "nil" THEN dflt ELSE @]

\* The deferred r.mu.RUnlock() of the lookups, and the return.
RUnlock(t) ==
    /\ thread[t].pc = "runlock"
    /\ mu' = runlock(mu, t)
    /\ thread' = [thread EXCEPT ![t] = afterLookup(@, defaultFS)]
    /\ UNCHANGED <<routes, stable, currentDir, lin>>
    /\ ThreadFrame

\* The backend's method returns to the facade, which returns: a step the
\* backend may never take.
BackendReturn(t) ==
    /\ thread[t].pc = "backend"
    /\ thread' = [thread EXCEPT ![t].pc = "done"]
    /\ UNCHANGED <<routes, stable, mu, currentDir, lin>>
    /\ ThreadFrame

\* The directories the Chdir calls in progress of the threads other than t
\* are about to store.
PendingStores(t) ==
    {Clean(thread[u].local) :
        u \in {v \in Threads \ {t} : thread[v].op = "Chdir" /\ thread[v].pc = "store"}}

\* A string read while it is stored to: the bytes of one string with the
\* length of the other (a string is a pointer and a length, stored and
\* loaded one word at a time); "?" is a byte behind the string's end.
Torn(data, length) ==
    [i \in 1..Len(length) |-> IF i <= Len(data) THEN data[i] ELSE "?"]

\* What thread t can read in fs.currentDir, which no lock guards: the value
\* stored, or a torn one when another thread's store is under way.
racyRead(t) ==
    {currentDir} \cup
    UNION {{Torn(currentDir, x), Torn(x, currentDir)} : x \in PendingStores(t)}

\* History: lin with, for the Chdir calls in progress in th, the points that
\* running some of them, in some order, adds.
RECURSIVE LinClosure(_, _, _)
LinClosure(S, th, k) ==
    IF k = 0 THEN S
    ELSE LinClosure(
           S \cup UNION {{Lin(chdir(c.value, th[u].arg), c.applied \cup {u}) :
                            u \in {v \in Threads \ c.applied :
                                      th[v].op = "Chdir" /\ th[v].pc = "store"}} :
                         c \in S},
           th, k - 1)

\* Chdir(dir) is called by t: a relative dir is joined to fs.currentDir as
\* the thread reads it.
CallChdir(t, dir) ==
    /\ Free(t)
    /\ \E cwd \in racyRead(t) :
           thread' = [thread EXCEPT ![t] =
               [Idle EXCEPT !.pc = "store", !.op = "Chdir", !.arg = dir,
                            !.local = IF ~IsAbs(dir) THEN Join(cwd, dir) ELSE dir]]
    /\ Len(Clean(thread'[t].local)) <= MaxDirLen
    /\ \A c \in LinClosure(lin, thread', Cardinality(Threads)) :
           Len(c.value) <= MaxDirLen
    /\ UNCHANGED <<routes, stable, mu, currentDir, lin>>
    /\ ThreadFrame

\* Chdir: fs.currentDir = filepath.Clean(dir), and the return.
ChdirStore(t) ==
    /\ thread[t].pc = "store"
    /\ currentDir' = Clean(thread[t].local)
    /\ thread' = [thread EXCEPT ![t].pc = "done"]
    /\ lin' = {Lin(c.value, c.applied \ {t}) :
                  c \in {x \in LinClosure(lin, thread, Cardinality(Threads)) :
                            t \in x.applied}}
    /\ UNCHANGED <<routes, stable, mu>>
    /\ ThreadFrame

\* Getwd() is called by t and returns what it reads.
GetwdRead(t) ==
    /\ Free(t)
    /\ \E cwd \in racyRead(t) :
           /\ thread' = [thread EXCEPT ![t] =
                  [Idle EXCEPT !.pc = "done", !.op = "Getwd", !.res.value = cwd]]
           /\ lin' = {c \in LinClosure(lin, thread, Cardinality(Threads)) :
                         c.value = cwd}
    /\ UNCHANGED <<routes, stable, mu, currentDir>>
    /\ ThreadFrame

(***************************************************************************)
(* The inputs the specifications draw from.                                *)
(***************************************************************************)
PatA == <<"/", "a">>
PatB == <<"b">>
PatBad == <<"[">>
\* A PatternType that is none of the three.
PatternUnknown == PatternRegex + 1

Paths == {<<"/", "a">>, <<"/", "a", "/", "b">>, <<"/", "a", "b">>, <<"/", "b">>}
Priorities == {0, 1}
Infos == {NoInfo, FileInfo(1, 1, FALSE), FileInfo(3, 2, TRUE)}

\* (pattern, type) pairs of Spec: four that compile, three that do not.
KeyInputs ==
    {<<PatA, PatternPrefix>>, <<PatA, PatternGlob>>, <<PatB, PatternPrefix>>,
     <<PatB, PatternRegex>>, <<PatBad, PatternGlob>>, <<PatBad, PatternRegex>>,
     <<PatA, PatternUnknown>>}

RouteInputs ==
    {MakeRoute(k[1], k[2], b, p, NoCondition) :
        k \in KeyInputs, b \in Backends \cup {NilBackend}, p \in Priorities}

\* (pattern, type, backend) triples and conditions of SpecInfo.
InfoKeyInputs ==
    {<<PatA, PatternPrefix, "b1">>, <<PatA, PatternGlob, "b2">>,
     <<PatB, PatternRegex, "b1">>}
InfoConditions == {NoCondition, MinSize(2), Not(MinSize(2))}

InfoRouteInputs ==
    {MakeRoute(k[1], k[2], k[3], p, c) :
        k \in InfoKeyInputs, p \in Priorities, c \in InfoConditions}

\* The routes of SpecSnap.
SnapRouteInputs ==
    {MakeRoute(PatA, PatternPrefix, "b1", 1, NoCondition),
     MakeRoute(PatB, PatternRegex, "b2", 0, NoCondition),
     MakeRoute(PatA, PatternGlob, "b2", 0, MinSize(2))}

\* One condition of each built-in constructor.
Leaves ==
    {MinSize(2), MaxSize(1), SizeRange(1, 2), OlderThan(1), NewerThan(2),
     ModifiedBetween(1, 2), DirectoriesOnly, FilesOnly}
\* The conditions a caller combines the one it is building with.
Companions == {MinSize(2), DirectoriesOnly}
CondInfos ==
    {NoInfo} \cup {FileInfo(sz, t, d) : sz \in {1, 3}, t \in {0, 3}, d \in BOOLEAN}

\* An AddRoute call the specifications make: any failing call, and a
\* succeeding one while the table holds fewer than max routes.
CanAdd(route, max) ==
    addRouteErr(routes, route) # "nil" \/ Len(routes) < max

(***************************************************************************)
(* Spec: the route table under AddRoute, RemoveRoute and Route.            *)
(***************************************************************************)
Next ==
    \/ \E route \in RouteInputs : CanAdd(route, MaxRoutes) /\ AddRoute(route)
    \/ \E pattern \in {PatA, PatB, PatBad} : RemoveRoute(pattern)
    \/ \E path \in Paths : Route(path)

Spec == Init /\ [][Next]_vars

(***************************************************************************)
(* SpecInfo: routes with conditions, looked up with and without metadata.  *)
(***************************************************************************)
NextInfo ==
    \/ \E route \in InfoRouteInputs : CanAdd(route, MaxRoutes) /\ AddRoute(route)
    \/ \E pattern \in {PatA, PatB} : RemoveRoute(pattern)
    \/ \E path \in Paths : Route(path)
    \/ \E path \in Paths, info \in Infos : RouteWithInfo(path, info)

SpecInfo == Init /\ [][NextInfo]_vars

(***************************************************************************)
(* SpecSnap: a caller that holds and changes what Routes() returned.       *)
(***************************************************************************)
NextSnap ==
    \/ \E route \in SnapRouteInputs : CanAdd(route, MaxRoutes) /\ AddRoute(route)
    \/ \E pattern \in {PatA, PatB} : RemoveRoute(pattern)
    \/ \E path \in Paths : Route(path)
    \/ Routes
    \/ \E i \in 1..MaxRoutes, route \in SnapRouteInputs : SnapSet(i, route)
    \/ \E i, j \in 1..MaxRoutes : SnapSwap(i, j)
    \/ \E k \in 0..MaxRoutes : SnapTruncate(k)

SpecSnap == Init /\ [][NextSnap]_vars

(***************************************************************************)
(* SpecCond: conditions built from the constructors, and evaluated.        *)
(***************************************************************************)
InitCond ==
    /\ routes = <<>>
    /\ stable = <<>>
    /\ ret = NoCall
    /\ snap = NoSnap
    /\ cond \in Leaves
    /\ defaultFS = NilBackend
    /\ disk = [b \in Backends |-> MockFS]
    /\ log = <<>>
    /\ fret = NoFsCall
    /\ currentDir = RootDir
    /\ thread = [t \in Threads |-> Idle]
    /\ mu = Unlocked
    /\ lin = {Lin(RootDir, {})}
    /\ tempDir = TmpDir
    /\ InitExt

NextCond ==
    \/ WrapNot
    \/ \E cs \in {<<>>, <<cond>>} \cup
                 {<<cond, c>> : c \in Companions} \cup
                 {<<c, cond>> : c \in Companions} : WrapAnd(cs)
    \/ \E cs \in {<<>>, <<cond>>} \cup
                 {<<cond, c>> : c \in Companions} \cup
                 {<<c, cond>> : c \in Companions} : WrapOr(cs)
    \/ \E info \in CondInfos : EvaluateCond(info)

SpecCond == InitCond /\ [][NextCond]_vars
(***************************************************************************)
(* SpecTies: a table grown past MaxInsertion routes, so that sort.Slice    *)
(* leaves insertion sort.  Route i has the pattern "/" followed by i "a"s. *)
(***************************************************************************)
TiePattern(i) == [j \in 1..(i + 1) |-> IF j = 1 THEN "/" ELSE "a"]
TieRoute(i, priority) ==
    MakeRoute(TiePattern(i), PatternPrefix,
              IF i % 2 = 1 THEN "b1" ELSE "b2", priority, NoCondition)
TiePaths == {TiePattern(2), TiePattern(7)}

NextTies ==
    \/ \E priority \in Priorities :
           /\ Len(routes) <= MaxInsertion
           /\ AddRoute(TieRoute(Len(routes) + 1, priority))
    \/ \E path \in TiePaths : Route(path)

SpecTies == Init /\ [][NextTies]_vars
(***************************************************************************)
(* SpecFacade: a facade over mock backends, built by New with or without   *)
(* a default backend; routes come and go through its router while every    *)
(* path operation is called, with and without a failure of the backend.    *)
(***************************************************************************)
PatS == <<"/", "s">>
PatD == <<"/", "d">>
PatRoot == <<"/">>

FsRouteInputs ==
    {WithRewriter(MakeRoute(PatS, PatternPrefix, "b1", 1, NoCondition),
                  StripPrefix(PatS)),
     MakeRoute(PatD, PatternPrefix, "b2", 0, NoCondition),
     MakeRoute(PatRoot, PatternPrefix, "b2", 0, NoCondition)}

\* The arguments of the path operations.
FsFlags == {O_RDONLY, O_RDWR \cup O_CREATE}
FsPerms == {493}
FsTimes == {1}
FsIds == {1000}
FsSizes == {0}
\* The steps of a rename at which a backend can fail (0: none does).
Faults == 0..6

\* The lists of WithRoute options New is given: up to MaxRoutes routes, no
\* route twice.
RouteLists(inputs) ==
    {opts \in UNION {[1..n -> inputs] : n \in 0..MaxRoutes} :
        \A i, j \in 1..Len(opts) : i # j => opts[i] # opts[j]}

\* New(opts...): the route table after the WithRoute options of opts, each
\* of which calls router.AddRoute, and the history of its keys.
RECURSIVE newRoutes(_, _, _)
newRoutes(opts, i, rs) ==
    IF i > Len(opts) THEN rs
    ELSE newRoutes(opts, i + 1, addRouteResult(rs, opts[i]).routes)
RECURSIVE newStable(_, _, _)
newStable(opts, i, keys) ==
    IF i > Len(opts) THEN keys
    ELSE newStable(opts, i + 1, StableInsert(keys, KeyOf(opts[i])))

\* New(WithRoute(...), ...), New(WithDefault(b), WithRoute(...), ...)
InitFacade ==
    /\ \E opts \in RouteLists(FsRouteInputs) :
           /\ routes = newRoutes(opts, 1, <<>>)
           /\ stable = newStable(opts, 1, <<>>)
    /\ ret = NoCall
    /\ snap = NoSnap
    /\ cond = NoCondition
    /\ defaultFS \in Backends \cup {NilBackend}
    /\ disk = [b \in Backends |-> MockFS]
    /\ log = <<>>
    /\ fret = NoFsCall
    /\ currentDir = RootDir
    /\ thread = [t \in Threads |-> Idle]
    /\ mu = Unlocked
    /\ lin = {Lin(RootDir, {})}
    /\ tempDir = TmpDir
    /\ InitExt

NextFacade ==
    \/ \E name \in FsPaths, flag \in FsFlags, perm \in FsPerms, failing \in BOOLEAN :
           OpenFile(name, flag, perm, failing)
    \/ \E name \in FsPaths, failing \in BOOLEAN : Open(name, failing)
    \/ \E name \in FsPaths, failing \in BOOLEAN : Create(name, failing)
    \/ \E name \in FsPaths, perm \in FsPerms, failing \in BOOLEAN :
           Mkdir(name, perm, failing)
    \/ \E name \in FsPaths, perm \in FsPerms, failing \in BOOLEAN :
           MkdirAll(name, perm, failing)
    \/ \E name \in FsPaths, failing \in BOOLEAN : Remove(name, failing)
    \/ \E name \in FsPaths, failing \in BOOLEAN : RemoveAll(name, failing)
    \/ \E oldpath \in FsPaths, newpath \in FsPaths, fault \in Faults :
           Rename(oldpath, newpath, fault, 0)
    \/ \E name \in FsPaths, failing \in BOOLEAN : Stat(name, failing)
    \/ \E name \in FsPaths, mode \in FsPerms, failing \in BOOLEAN :
           Chmod(name, mode, failing)
    \/ \E name \in FsPaths, atime \in FsTimes, mtime \in FsTimes, failing \in BOOLEAN :
           Chtimes(name, atime, mtime, failing)
    \/ \E name \in FsPaths, uid \in FsIds, gid \in FsIds, failing \in BOOLEAN :
           Chown(name, uid, gid, failing)
    \/ \E name \in FsPaths, size \in FsSizes, failing \in BOOLEAN :
           Truncate(name, size, failing)

SpecFacade == InitFacade /\ [][NextFacade]_vars

(***************************************************************************)
(* SpecMove: a facade over two in-memory backends that hold a file or a    *)
(* directory at the source and at the destination of a rename.             *)
(***************************************************************************)
MoveRoutes ==
    <<MakeRoute(PatS, PatternPrefix, "b1", 1, NoCondition),
      MakeRoute(PatD, PatternPrefix, "b2", 0, NoCondition)>>
MovePaths == {PathSF, PathDF, PathX}
\* The bytes a failing copy can have written before it fails.
MaxWritten == 1
\* A failure of a backend during a rename: the step, and the bytes written
\* when the step is the copy.
MoveFaults ==
    {<<fault, 0>> : fault \in Faults} \cup {<<4, n>> : n \in 1..MaxWritten}
SourceObjects == {NoObject, File(<<>>), File(<<"h", "i">>), Dir}
DestinationObjects == {NoObject, File(<<"x">>), Dir}

\* New(WithRoute("/s", b1, WithPriority(1)), WithRoute("/d", b2)), with or
\* without WithDefault(b), over backends that hold objects.
InitMove ==
    /\ routes = newRoutes(MoveRoutes, 1, <<>>)
    /\ stable = newStable(MoveRoutes, 1, <<>>)
    /\ ret = NoCall
    /\ snap = NoSnap
    /\ cond = NoCondition
    /\ defaultFS \in Backends \cup {NilBackend}
    /\ \E so \in SourceObjects, do \in DestinationObjects :
           disk = [b \in Backends |->
                      IF b = "b1" THEN [EmptyFS EXCEPT ![PathSF] = so]
                      ELSE [EmptyFS EXCEPT ![PathDF] = do]]
    /\ log = <<>>
    /\ fret = NoFsCall
    /\ currentDir = RootDir
    /\ thread = [t \in Threads |-> Idle]
    /\ mu = Unlocked
    /\ lin = {Lin(RootDir, {})}
    /\ tempDir = TmpDir
    /\ InitExt

NextMove ==
    \/ \E oldpath \in MovePaths, f \in MoveFaults :
           \E newpath \in MovePaths \ {oldpath} :
               Rename(oldpath, newpath, f[1], f[2])
    \/ \E name \in MovePaths, failing \in BOOLEAN : Stat(name, failing)

SpecMove == InitMove /\ [][NextMove]_vars

(***************************************************************************)
(* The working directory: Chdir and Getwd among the other operations of    *)
(* the facade and of its router.                                           *)
(***************************************************************************)
\* The arguments of Chdir: absolute, relative, up, empty.
CwdDirs == {<<"/", "b">>, <<"a">>, <<".", ".">>, <<>>}

CwdRouteInputs ==
    {MakeRoute(PatS, PatternPrefix, "b1", 1, NoCondition),
     MakeRoute(PatRoot, PatternPrefix, "b2", 0, NoCondition)}

\* New(WithDefault(b1))
InitCwd ==
    /\ routes = <<>>
    /\ stable = <<>>
    /\ ret = NoCall
    /\ snap = NoSnap
    /\ cond = NoCondition
    /\ defaultFS = "b1"
    /\ disk = [b \in Backends |-> MockFS]
    /\ log = <<>>
    /\ fret = NoFsCall
    /\ currentDir = RootDir
    /\ thread = [t \in Threads |-> Idle]
    /\ mu = Unlocked
    /\ lin = {Lin(RootDir, {})}
    /\ tempDir = TmpDir
    /\ InitExt

NextCwd ==
    \/ \E dir \in CwdDirs : Chdir(dir)
    \/ Getwd
    \/ \E route \in CwdRouteInputs : AddRoute(route)
    \/ \E pattern \in {PatS, PatRoot} : RemoveRoute(pattern)
    \/ Route(PathSF)
    \/ RouteWithInfo(PathSF, NoInfo)
    \/ Routes
    \/ OpenFile(PathSF, O_RDONLY, 493, FALSE)
    \/ Open(PathSF, FALSE)
    \/ Create(PathSF, FALSE)
    \/ Mkdir(PathSF, 493, FALSE)
    \/ MkdirAll(PathSF, 493, FALSE)
    \/ Remove(PathSF, FALSE)
    \/ RemoveAll(PathSF, FALSE)
    \/ Rename(PathSF, PathDF, 0, 0)
    \/ Stat(PathSF, FALSE)
    \/ Chmod(PathSF, 493, FALSE)
    \/ Chtimes(PathSF, 1, 1, FALSE)
    \/ Chown(PathSF, 1000, 1000, FALSE)
    \/ Truncate(PathSF, 0, FALSE)

SpecCwd == InitCwd /\ [][NextCwd]_vars

(***************************************************************************)
(* Threads on one router: AddRoute, RemoveRoute and the lookups.           *)
(***************************************************************************)
ThreadRouteInputs ==
    {MakeRoute(PatS, PatternPrefix, "b1", 1, NoCondition),
     MakeRoute(PatRoot, PatternPrefix, "b2", 0, NoCondition)}

NextRouterThreads ==
    \E t \in Threads :
        \/ \E route \in ThreadRouteInputs : CallAddRoute(t, route)
        \/ \E pattern \in {PatS, PatRoot} : CallRemoveRoute(t, pattern)
        \/ Lock(t)
        \/ AddCheck(t)
        \/ AddAppend(t)
        \/ AddSort(t)
        \/ RemoveFind(t)
        \/ RemoveReslice(t)
        \/ Unlock(t)
        \/ CallLookup(t, "Route", <<PathSF>>)
        \/ CallLookup(t, "RouteWithInfo", <<PathSF, NoInfo>>)
        \/ CallLookup(t, "Routes", <<>>)
        \/ RLock(t)
        \/ Read(t)
        \/ RUnlock(t)

SpecRouterThreads == Init /\ [][NextRouterThreads]_vars

(***************************************************************************)
(* Threads reading one router whose table no thread changes.               *)
(***************************************************************************)
\* NewRouter() and the AddRoute calls made before the threads start.
InitReaders ==
    /\ \E opts \in RouteLists(FsRouteInputs) :
           /\ routes = newRoutes(opts, 1, <<>>)
           /\ stable = newStable(opts, 1, <<>>)
    /\ ret = NoCall
    /\ snap = NoSnap
    /\ cond = NoCondition
    /\ defaultFS = NilBackend
    /\ disk = [b \in Backends |-> MockFS]
    /\ log = <<>>
    /\ fret = NoFsCall
    /\ currentDir = RootDir
    /\ thread = [t \in Threads |-> Idle]
    /\ mu = Unlocked
    /\ lin = {Lin(RootDir, {})}
    /\ tempDir = TmpDir
    /\ InitExt

NextReaders ==
    \E t \in Threads :
        \/ \E path \in {PathSF, PathX} : CallLookup(t, "Route", <<path>>)
        \/ CallLookup(t, "Routes", <<>>)
        \/ RLock(t)
        \/ Read(t)
        \/ RUnlock(t)

SpecReaders == InitReaders /\ [][NextReaders]_vars

(***************************************************************************)
(* Threads on one facade: path operations, whose backend calls may never   *)
(* return, among AddRoute and RemoveRoute calls on its router.             *)
(***************************************************************************)
\* New(), New(WithDefault(b1))
InitFacadeThreads ==
    /\ routes = <<>>
    /\ stable = <<>>
    /\ ret = NoCall
    /\ snap = NoSnap
    /\ cond = NoCondition
    /\ defaultFS \in {NilBackend, "b1"}
    /\ disk = [b \in Backends |-> MockFS]
    /\ log = <<>>
    /\ fret = NoFsCall
    /\ currentDir = RootDir
    /\ thread = [t \in Threads |-> Idle]
    /\ mu = Unlocked
    /\ lin = {Lin(RootDir, {})}
    /\ tempDir = TmpDir
    /\ InitExt

NextFacadeThreads ==
    \E t \in Threads :
        \/ CallLookup(t, "PathOp", <<PathSF>>)
        \/ CallLookup(t, "Rename", <<PathSF, PathX>>)
        \/ RLock(t)
        \/ Read(t)
        \/ RUnlock(t)
        \/ BackendReturn(t)
        \/ \E route \in ThreadRouteInputs : CallAddRoute(t, route)
        \/ \E pattern \in {PatS, PatRoot} : CallRemoveRoute(t, pattern)
        \/ Lock(t)
        \/ AddCheck(t)
        \/ AddAppend(t)
        \/ AddSort(t)
        \/ RemoveFind(t)
        \/ RemoveReslice(t)
        \/ Unlock(t)

SpecFacadeThreads == InitFacadeThreads /\ [][NextFacadeThreads]_vars

(***************************************************************************)
(* Threads calling Chdir and Getwd on one facade.                          *)
(***************************************************************************)
ThreadDirs == {<<"a">>, <<"b">>, <<".", ".">>, <<"/", "b">>}

NextCwdThreads ==
    \E t \in Threads :
        \/ \E dir \in ThreadDirs : CallChdir(t, dir)
        \/ ChdirStore(t)
        \/ GetwdRead(t)

SpecCwdThreads == InitCwd /\ [][NextCwdThreads]_vars

(***************************************************************************)
(* New called with every list of up to MaxOpts options.                    *)
(***************************************************************************)
MaxOpts == 3

NewOptions ==
    {WithRoute(MakeRoute(PatS, PatternPrefix, "b1", 0, NoCondition)),
     WithRoute(MakeRoute(PatD, PatternPrefix, "b2", 0, NoCondition)),
     WithDefault("b1"),
     WithDefault(NilBackend),
     WithTempDir(<<"/", "t">>),
     WithRouter(<<>>),
     WithRouter(addRouteTable(<<>>, MakeRoute(PatRoot, PatternPrefix, "b2", 0, NoCondition)))}

NextNew ==
    \/ \E opts \in UNION {[1..n -> NewOptions] : n \in 0..MaxOpts} : New(opts)
    \/ TempDir

SpecNew == InitCwd /\ [][NextNew]_vars

(***************************************************************************)
(* SpecPrefix: prefix routes, and a glob route beside them, looked up with *)
(* paths that are and are not in normal form.                              *)
(***************************************************************************)
PrefixRouteInputs ==
    {MakeRoute(q, PatternPrefix, b, p, NoCondition) :
        q \in {<<"/", "a">>, <<"a", "/">>, <<"/", "a", "/", "b">>},
        b \in Backends, p \in Priorities}
    \cup {MakeRoute(<<"/", "a">>, PatternGlob, "b2", 1, NoCondition)}

PrefixPaths ==
    {<<"/", "a">>, <<"/", "a", "b">>, <<"/", "a", "/", "b">>, <<"a">>,
     <<"/", "/", "a", "/">>, <<"/", "b", "/", ".", ".", "/", "a", "b">>,
     <<"/", "b">>, <<>>}

NextPrefix ==
    \/ \E route \in PrefixRouteInputs : CanAdd(route, MaxRoutes) /\ AddRoute(route)
    \/ \E pattern \in {<<"/", "a">>, <<"a", "/">>, <<"/", "a", "/", "b">>} :
           RemoveRoute(pattern)
    \/ \E path \in PrefixPaths : Route(path)

SpecPrefix == Init /\ [][NextPrefix]_vars

(***************************************************************************)
(* SpecRewrite: Rewrite called on the prefix and static rewriters and on   *)
(* chains of up to MaxChain of them, a chain inside a chain included.      *)
(***************************************************************************)
MaxChain == 3

SimpleRewriters ==
    {StripPrefix(PatS), AddPrefix(PatD), ReplacePrefix(PatD, PatS),
     StaticMapping([p \in {<<"/", "f">>} |-> <<"/", "s", "/", "g">>])}

ChainInputs ==
    UNION {[1..n -> SimpleRewriters] : n \in 0..MaxChain}
    \cup {<<ChainRewriters(<<r1, r2>>), r3>> : r1, r2, r3 \in SimpleRewriters}

RewritePaths == {<<"/", "s", "/", "f">>, <<"/", "d", "/", "f">>, <<"/", "f">>, <<>>}

NextRewrite ==
    \/ \E r \in SimpleRewriters, path \in RewritePaths : CallRewrite(r, path)
    \/ \E rs \in ChainInputs, path \in RewritePaths :
           CallRewrite(ChainRewriters(rs), path)

SpecRewrite == Init /\ [][NextRewrite]_vars

(***************************************************************************)
(* SpecSize: size conditions with every pair of bounds, evaluated on files *)
(* of every size around them.                                              *)
(***************************************************************************)
SizeBounds == -1..3
FileSizes == -1..4

SizeConditions ==
    {SizeRange(minBytes, maxBytes) : minBytes, maxBytes \in SizeBounds}
    \cup {MinSize(bytes) : bytes \in SizeBounds}
    \cup {MaxSize(bytes) : bytes \in SizeBounds}

InitSize ==
    /\ routes = <<>>
    /\ stable = <<>>
    /\ ret = NoCall
    /\ snap = NoSnap
    /\ cond \in SizeConditions
    /\ defaultFS = NilBackend
    /\ disk = [b \in Backends |-> MockFS]
    /\ log = <<>>
    /\ fret = NoFsCall
    /\ currentDir = RootDir
    /\ thread = [t \in Threads |-> Idle]
    /\ mu = Unlocked
    /\ lin = {Lin(RootDir, {})}
    /\ tempDir = TmpDir
    /\ InitExt

NextSize ==
    \E size \in FileSizes, isDir \in BOOLEAN : EvaluateCond(FileInfo(size, 0, isDir))

SpecSize == InitSize /\ [][NextSize]_vars

(***************************************************************************)
(* SpecCached: a router made by NewRouterWithCache, used by one caller.    *)
(***************************************************************************)
\* The latest time the clock shows.
MaxTime == 2

\* Time passes.
Tick ==
    /\ now < MaxTime
    /\ now' = now + 1
    /\ UNCHANGED <<routes, stable, ret, snap, cond, defaultFS, disk, log, fret,
                   currentDir, tempDir, thread, mu, lin, cache, ref, health, stats>>

CachedRouteInputs ==
    {MakeRoute(PatS, PatternPrefix, "b1", p, NoCondition) : p \in Priorities}
    \cup {MakeRoute(PatRoot, PatternPrefix, "b2", 0, NoCondition),
          MakeRoute(PatD, PatternPrefix, "b1", 1, NoCondition),
          MakeRoute(PatS, PatternPrefix, NilBackend, 0, NoCondition)}

CachedPaths == {<<"/", "s", "/", "f">>, <<"/", "d", "/", "f">>, <<>>}

\* NewRouterWithCache(maxCacheSize, cacheTTL)
InitCached ==
    /\ routes = <<>>
    /\ stable = <<>>
    /\ ret = NoCall
    /\ snap = NoSnap
    /\ cond = NoCondition
    /\ defaultFS = NilBackend
    /\ disk = [b \in Backends |-> MockFS]
    /\ log = <<>>
    /\ fret = NoFsCall
    /\ currentDir = RootDir
    /\ thread = [t \in Threads |-> Idle]
    /\ mu = Unlocked
    /\ lin = {Lin(RootDir, {})}
    /\ tempDir = TmpDir
    /\ cache \in {NewRouteCache(maxSize, ttl) : maxSize \in {1, 2}, ttl \in {0, 1}}
    /\ now = 0
    /\ ref = NoRef
    /\ health = NoMonitor
    /\ stats = NoCollector

NextCached ==
    \/ \E route \in CachedRouteInputs : CanAdd(route, MaxRoutes) /\ AddRoute(route)
    \/ \E pattern \in {PatS, PatD, PatRoot} : RemoveRoute(pattern)
    \/ \E path \in CachedPaths : Route(path)
    \/ Tick

SpecCached == InitCached /\ [][NextCached]_vars

(***************************************************************************)
(* SpecCache: a RouteCache of capacity 1 or 2 under Set, Get, Clear and    *)
(* Size.                                                                   *)
(***************************************************************************)
CacheKeys == {<<>>, <<"/", "a">>, <<"/", "b">>, <<"/", "c">>}

NextCache ==
    \/ \E path \in CacheKeys, index \in {0, 1} : CacheSet(path, index)
    \/ \E path \in CacheKeys : CacheGet(path)
    \/ CacheClear
    \/ CacheSize
    \/ Tick

SpecCache == InitCached /\ [][NextCache]_vars

(***************************************************************************)
(* Threads on one router with a cache: AddRoute, RemoveRoute and Route.    *)
(***************************************************************************)
CachedThreadRouteInputs ==
    {MakeRoute(PatS, PatternPrefix, "b1", 0, NoCondition),
     MakeRoute(PatD, PatternPrefix, "b2", 1, NoCondition)}

NextCachedThreads ==
    \E t \in Threads :
        \/ \E route \in CachedThreadRouteInputs : CallAddRoute(t, route)
        \/ \E pattern \in {PatS, PatD} : CallRemoveRoute(t, pattern)
        \/ Lock(t)
        \/ AddCheck(t)
        \/ AddAppend(t)
        \/ AddSort(t)
        \/ RemoveFind(t)
        \/ RemoveReslice(t)
        \/ ClearStep(t)
        \/ Unlock(t)
        \/ CallLookup(t, "Route", <<PathSF>>)
        \/ CacheGetStep(t)
        \/ HitRLock(t)
        \/ HitRead(t)
        \/ HitRUnlock(t)
        \/ RLock(t)
        \/ Read(t)
        \/ CacheSetStep(t)
        \/ RUnlock(t)

SpecCachedThreads == InitCached /\ [][NextCachedThreads]_vars

(***************************************************************************)
(* The HealthMonitor: the circuit breaker of each backend.                 *)
(***************************************************************************)
\* The most failures in a row the model records for one backend.
MaxFailures == 3

\* A backend hm.backends has no entry for.
Untracked ==
    [tracked |-> FALSE, Healthy |-> FALSE, FailureCount |-> 0,
     LastFailure |-> NoTime, LastSuccess |-> NoTime,
     CircuitOpen |-> FALSE, CircuitOpened |-> NoTime]

\* &BackendHealth{Healthy: true}
NewBackendHealth == [Untracked EXCEPT !.tracked = TRUE, !.Healthy = TRUE]

\* NewHealthMonitor(failureThreshold, circuitTimeout, recoveryTimeout)
NewHealthMonitor(failureThreshold, circuitTimeout, recoveryTimeout) ==
    [backends |-> [b \in Backends |-> Untracked],
     failureThreshold |-> failureThreshold,
     circuitTimeout |-> circuitTimeout,
     recoveryTimeout |-> recoveryTimeout]

\* The entry of a backend as RecordSuccess and RecordFailure find or make it.
entryOf(hm, backend) ==
    IF hm.backends[backend].tracked THEN hm.backends[backend] ELSE NewBackendHealth

\* HealthMonitor.RecordSuccess(backend) at time t: the monitor it leaves.
recordSuccess(hm, backend, t) ==
    [hm EXCEPT !.backends[backend] =
        [entryOf(hm, backend) EXCEPT !.LastSuccess = SomeTime(t),
                                     !.FailureCount = 0,
                                     !.Healthy = TRUE,
                                     !.CircuitOpen = FALSE]]

\* RecordFailure opening the circuit and leaving Healthy as it is.
recordFailureKeepHealthy(hm, backend, t) ==
    [hm EXCEPT !.backends[backend] = TheOne({
        IF h.FailureCount + 1 >= hm.failureThreshold
        THEN [h EXCEPT !.LastFailure = SomeTime(t),
                       !.FailureCount = @ + 1,
                       !.CircuitOpen = TRUE,
                       !.CircuitOpened = SomeTime(t)]
        ELSE [h EXCEPT !.LastFailure = SomeTime(t), !.FailureCount = @ + 1]
        : h \in {entryOf(hm, backend)} })]

\* HealthMonitor.RecordFailure(backend) at time t: the monitor it leaves.
recordFailure(hm, backend, t) ==
    [hm EXCEPT !.backends[backend] = TheOne({
        IF h.FailureCount + 1 >= hm.failureThreshold
        THEN [h EXCEPT !.LastFailure = SomeTime(t),
                       !.FailureCount = @ + 1,
                       !.CircuitOpen = TRUE,
                       !.CircuitOpened = SomeTime(t),
                       !.Healthy = FALSE]
        ELSE [h EXCEPT !.LastFailure = SomeTime(t), !.FailureCount = @ + 1]
        : h \in {entryOf(hm, backend)} })]

\* HealthMonitor.IsHealthy(backend) at time t
isHealthy(hm, backend, t) ==
    IF ~hm.backends[backend].tracked THEN TRUE
    ELSE IF hm.backends[backend].CircuitOpen
    THEN t - hm.backends[backend].CircuitOpened.t > hm.circuitTimeout
    ELSE hm.backends[backend].Healthy

\* What a call on the monitor leaves alone.
HealthFrame ==
    UNCHANGED <<routes, stable, snap, cond, defaultFS, disk, log, fret,
                currentDir, tempDir, thread, mu, lin, cache, now, ref, stats>>

RecordSuccess(backend) ==
    /\ health' = recordSuccess(health, backend, now)
    /\ ret' = [NoCall EXCEPT !.op = "RecordSuccess", !.backend = backend]
    /\ HealthFrame

\* The failures in a row that the model records end at MaxFailures.
RecordFailure(backend) ==
    /\ entryOf(health, backend).FailureCount < MaxFailures
    /\ health' = recordFailure(health, backend, now)
    /\ ret' = [NoCall EXCEPT !.op = "RecordFailure", !.backend = backend]
    /\ HealthFrame

\* IsHealthy(backend) returns ok.  History: idx is 2 when the call before
\* this one on the monitor was an IsHealthy for the same backend that
\* returned true, else 1.
IsHealthy(backend) ==
    /\ ret' = [NoCall EXCEPT
                  !.op = "IsHealthy", !.backend = backend,
                  !.ok = isHealthy(health, backend, now),
                  !.idx = IF ret.op = "IsHealthy" /\ ret.backend = backend /\ ret.ok
                          THEN 2 ELSE 1]
    /\ UNCHANGED health
    /\ HealthFrame

\* HealthMonitor.Reset(backend): delete(hm.backends, backend)
ResetHealth(backend) ==
    /\ health' = [health EXCEPT !.backends[backend] = Untracked]
    /\ ret' = [NoCall EXCEPT !.op = "Reset", !.backend = backend]
    /\ HealthFrame

\* HealthMonitor.ResetAll()
ResetAll ==
    /\ health' = [health EXCEPT !.backends = [b \in Backends |-> Untracked]]
    /\ ret' = [NoCall EXCEPT !.op = "ResetAll"]
    /\ HealthFrame

\* The monitors of the model: NewHealthMonitor with a threshold of 1 or
\* more failures.
InitHealth ==
    /\ routes = <<>>
    /\ stable = <<>>
    /\ ret = NoCall
    /\ snap = NoSnap
    /\ cond = NoCondition
    /\ defaultFS = NilBackend
    /\ disk = [b \in Backends |-> MockFS]
    /\ log = <<>>
    /\ fret = NoFsCall
    /\ currentDir = RootDir
    /\ thread = [t \in Threads |-> Idle]
    /\ mu = Unlocked
    /\ lin = {Lin(RootDir, {})}
    /\ tempDir = TmpDir
    /\ cache = NilCache
    /\ now = 0
    /\ ref = NoRef
    /\ health \in {NewHealthMonitor(failureThreshold, circuitTimeout, 0) :
                      failureThreshold \in 1..3, circuitTimeout \in {0, 1}}
    /\ stats = NoCollector

NextHealth ==
    \/ \E backend \in Backends : RecordSuccess(backend)
    \/ \E backend \in Backends : RecordFailure(backend)
    \/ \E backend \in Backends : IsHealthy(backend)
    \/ \E backend \in Backends : ResetHealth(backend)
    \/ ResetAll
    \/ Tick

SpecHealth == InitHealth /\ [][NextHealth]_vars

(***************************************************************************)
(* RetryWithBackoff on the configs and the operations of the model.  An    *)
(* operation is the errors its invocations return, one after the other;    *)
(* a Multiplier is a fraction num/den.                                     *)
(***************************************************************************)
\* The largest MaxAttempts of a config, and the invocations an operation
\* has an answer for.
MaxRetryAttempts == 3
\* The largest InitialDelay and MaxDelay of a config.
MaxRetryDelay == 3

RetryConfig(maxAttempts, initialDelay, maxDelay, multiplier) ==
    [MaxAttempts |-> maxAttempts, InitialDelay |-> initialDelay,
     MaxDelay |-> maxDelay, Multiplier |-> multiplier]

\* time.Duration(float64(delay) * config.Multiplier): the product, cut to
\* an integer toward zero (the delays of the model are not negative).
scale(delay, multiplier) == (delay * multiplier.num) \div multiplier.den

\* The delay after a sleep of delay.
nextDelay(config, delay) ==
    IF scale(delay, config.Multiplier) > config.MaxDelay
    THEN config.MaxDelay
    ELSE scale(delay, config.Multiplier)

\* The loop of RetryWithBackoff from the attempt on: what it returns (err),
\* the invocations of op so far (calls) and the delays slept (sleeps).
RECURSIVE retryLoop(_, _, _, _, _, _, _)
retryLoop(config, op, attempt, delay, lastErr, calls, sleeps) ==
    IF ~(attempt < config.MaxAttempts)
    THEN [err |-> lastErr, calls |-> calls, sleeps |-> sleeps]
    ELSE IF op[calls + 1] = "nil"
    THEN [err |-> "nil", calls |-> calls + 1, sleeps |-> sleeps]
    ELSE IF attempt < config.MaxAttempts - 1
    THEN retryLoop(config, op, attempt + 1, nextDelay(config, delay),
                   op[calls + 1], calls + 1, Append(sleeps, delay))
    ELSE retryLoop(config, op, attempt + 1, delay,
                   op[calls + 1], calls + 1, sleeps)

\* RetryWithBackoff(config, op)
retryWithBackoff(config, op) ==
    retryLoop(config, op, 0, config.InitialDelay, "nil", 0, <<>>)

RetryWithBackoff(config, op) ==
    \E out \in {retryWithBackoff(config, op)} :
        /\ fret' = [NoFsCall EXCEPT
                       !.op = "RetryWithBackoff", !.args = <<config, op>>,
                       !.err = out.err,
                       !.value = [k |-> "retry", calls |-> out.calls,
                                  sleeps |-> out.sleeps]]
        /\ UNCHANGED <<routes, stable, ret, snap, cond, defaultFS, tempDir,
                       disk, log, currentDir, thread, mu, lin, extVars>>

Multipliers ==
    {[num |-> 1, den |-> 2], [num |-> 1, den |-> 1],
     [num |-> 3, den |-> 2], [num |-> 2, den |-> 1]}

RetryConfigs ==
    {RetryConfig(maxAttempts, initialDelay, maxDelay, multiplier) :
        maxAttempts \in -1..MaxRetryAttempts,
        initialDelay \in 0..MaxRetryDelay,
        maxDelay \in 0..MaxRetryDelay,
        multiplier \in Multipliers}

RetryOperations == [1..MaxRetryAttempts -> {"nil", "e1", "e2"}]

\* The caller holds a config: fret.args[1].
InitRetry ==
    /\ routes = <<>>
    /\ stable = <<>>
    /\ ret = NoCall
    /\ snap = NoSnap
    /\ cond = NoCondition
    /\ defaultFS = NilBackend
    /\ disk = [b \in Backends |-> MockFS]
    /\ log = <<>>
    /\ fret \in {[NoFsCall EXCEPT !.args = <<config>>] : config \in RetryConfigs}
    /\ currentDir = RootDir
    /\ thread = [t \in Threads |-> Idle]
    /\ mu = Unlocked
    /\ lin = {Lin(RootDir, {})}
    /\ tempDir = TmpDir
    /\ InitExt

NextRetry ==
    \E op \in RetryOperations : RetryWithBackoff(fret.args[1], op)

SpecRetry == InitRetry /\ [][NextRetry]_vars

(***************************************************************************)
(* Threads on one StatsCollector.  A thread that has called sc.mu.Lock()   *)
(* and waits in it keeps later sc.mu.RLock() calls waiting, as Go's        *)
(* sync.RWMutex does.  The lock of one RouteStats is taken only under      *)
(* sc.mu, by a writer of sc.mu or by its readers for reading, and never    *)
(* waited for; the steps under sc.mu include it.                           *)
(***************************************************************************)
StatsWriters == {"RecordOperation", "RecordRouteHit", "Reset"}
StatsReaders == {"GetRouteStats", "GetAllStats"}

\* A thread in no call on the collector.  Of a call: where it is (pc), the
\* method (op), its pattern (arg), the patterns GetAllStats has still to
\* visit (todo), and whether the thread is in the GetRouteStats that
\* GetAllStats calls (inner).
NoStatsCall ==
    [pc |-> "idle", op |-> "none", arg |-> <<>>, todo |-> {}, inner |-> FALSE]

\* NewStatsCollector(): sc.mu with its writer and the read locks each
\* thread holds, and the patterns of sc.routes.
NewStatsCollector ==
    [writer |-> "none", readers |-> [t \in Threads |-> 0], routes |-> {},
     call |-> [t \in Threads |-> NoStatsCall]]

\* The threads waiting in sc.mu.Lock().
statsWaiting(sc) == {t \in Threads : sc.call[t].pc = "lock"}

\* sc.mu.Lock() returns: no writer and no reader holds the lock.
statsCanLock(sc) == sc.writer = "none" /\ \A t \in Threads : sc.readers[t] = 0

\* sc.mu.RLock() returns: no writer holds the lock and none waits for it.
statsCanRLock(sc) == sc.writer = "none" /\ statsWaiting(sc) = {}

\* What a step on the collector leaves alone.
StatsFrame ==
    UNCHANGED <<routes, stable, ret, snap, cond, defaultFS, disk, log, fret,
                currentDir, tempDir, thread, mu, lin, cache, now, ref, health>>

\* A method of the collector is called by t; the first thing it does is
\* sc.mu.Lock() or sc.mu.RLock().
CallStats(t, op, pattern) ==
    /\ stats.call[t].pc \in {"idle", "done"}
    /\ stats' = [stats EXCEPT !.call[t] =
           [NoStatsCall EXCEPT !.pc = IF op \in StatsWriters THEN "lock" ELSE "rlock",
                               !.op = op, !.arg = pattern]]
    /\ StatsFrame

\* sc.mu.Lock() returns in RecordOperation, RecordRouteHit and Reset.
StatsLock(t) ==
    /\ stats.call[t].pc = "lock"
    /\ statsCanLock(stats)
    /\ stats' = [stats EXCEPT !.writer = t, !.call[t].pc = "write"]
    /\ StatsFrame

\* RecordOperation and RecordRouteHit make the pattern's RouteStats if there
\* is none and count; Reset makes sc.routes anew.
StatsWrite(t) ==
    /\ stats.call[t].pc = "write"
    /\ stats' = [stats EXCEPT
           !.routes = IF stats.call[t].op = "Reset" THEN {}
                      ELSE @ \cup {stats.call[t].arg},
           !.call[t].pc = "unlock"]
    /\ StatsFrame

\* The deferred sc.mu.Unlock(), and the return.
StatsUnlock(t) ==
    /\ stats.call[t].pc = "unlock"
    /\ stats' = [stats EXCEPT !.writer = "none", !.call[t].pc = "done"]
    /\ StatsFrame

\* sc.mu.RLock() returns in GetRouteStats and in GetAllStats.
StatsRLock(t) ==
    /\ stats.call[t].pc = "rlock"
    /\ statsCanRLock(stats)
    /\ stats' = [stats EXCEPT
           !.readers[t] = @ + 1,
           !.call[t].pc = IF stats.call[t].op = "GetAllStats" /\ ~stats.call[t].inner
                          THEN "range" ELSE "copy",
           !.call[t].todo = IF stats.call[t].op = "GetAllStats" /\ ~stats.call[t].inner
                            THEN stats.routes ELSE @]
    /\ StatsFrame

\* GetAllStats: for pattern := range sc.routes { sc.GetRouteStats(pattern) },
\* a call that starts with sc.mu.RLock(); after the last pattern the return.
StatsRange(t) ==
    /\ stats.call[t].pc = "range"
    /\ IF stats.call[t].todo = {}
       THEN stats' = [stats EXCEPT !.call[t].pc = "runlock"]
       ELSE \E pattern \in stats.call[t].todo :
                stats' = [stats EXCEPT !.call[t].pc = "rlock",
                                       !.call[t].inner = TRUE,
                                       !.call[t].arg = pattern,
                                       !.call[t].todo = @ \ {pattern}]
    /\ StatsFrame

\* GetRouteStats: the copy of the pattern's RouteStats, or nil.
StatsCopy(t) ==
    /\ stats.call[t].pc = "copy"
    /\ stats' = [stats EXCEPT !.call[t].pc = "runlock"]
    /\ StatsFrame

\* The deferred sc.mu.RUnlock(), and the return: of GetRouteStats to its
\* caller or to GetAllStats's loop, of GetAllStats to its caller.
StatsRUnlock(t) ==
    /\ stats.call[t].pc = "runlock"
    /\ stats' = [stats EXCEPT
           !.readers[t] = @ - 1,
           !.call[t].pc = IF stats.call[t].inner THEN "range" ELSE "done",
           !.call[t].inner = FALSE]
    /\ StatsFrame

StatsPatterns == {PatS, PatD}

InitStats ==
    /\ routes = <<>>
    /\ stable = <<>>
    /\ ret = NoCall
    /\ snap = NoSnap
    /\ cond = NoCondition
    /\ defaultFS = NilBackend
    /\ disk = [b \in Backends |-> MockFS]
    /\ log = <<>>
    /\ fret = NoFsCall
    /\ currentDir = RootDir
    /\ thread = [t \in Threads |-> Idle]
    /\ mu = Unlocked
    /\ lin = {Lin(RootDir, {})}
    /\ tempDir = TmpDir
    /\ cache = NilCache
    /\ now = 0
    /\ ref = NoRef
    /\ health = NoMonitor
    /\ stats = NewStatsCollector

NextStats ==
    \E t \in Threads :
        \/ \E pattern \in StatsPatterns : CallStats(t, "RecordOperation", pattern)
        \/ \E pattern \in StatsPatterns : CallStats(t, "RecordRouteHit", pattern)
        \/ \E pattern \in StatsPatterns : CallStats(t, "GetRouteStats", pattern)
        \/ CallStats(t, "GetAllStats", <<>>)
        \/ CallStats(t, "Reset", <<>>)
        \/ StatsLock(t)
        \/ StatsWrite(t)
        \/ StatsUnlock(t)
        \/ StatsRLock(t)
        \/ StatsRange(t)
        \/ StatsCopy(t)
        \/ StatsRUnlock(t)

SpecStats == InitStats /\ [][NextStats]_vars

(***************************************************************************)
(* A caller that keeps the pointer RouteWithInfo returned while routes are *)
(* added and removed.                                                      *)
(***************************************************************************)
RefRouteInputs ==
    {MakeRoute(PatS, PatternPrefix, "b1", p, NoCondition) : p \in {0, 1}}
        \cup {MakeRoute(PatD, PatternPrefix, "b2", 1, NoCondition),
              MakeRoute(PatRoot, PatternPrefix, "b2", 0, NoCondition)}

InitRef ==
    /\ routes = <<>>
    /\ stable = <<>>
    /\ ret = NoCall
    /\ snap = NoSnap
    /\ cond = NoCondition
    /\ defaultFS = NilBackend
    /\ disk = [b \in Backends |-> MockFS]
    /\ log = <<>>
    /\ fret = NoFsCall
    /\ currentDir = RootDir
    /\ thread = [t \in Threads |-> Idle]
    /\ mu = Unlocked
    /\ lin = {Lin(RootDir, {})}
    /\ tempDir = TmpDir
    /\ cache = NilCache
    /\ now = 0
    /\ ref = NewArray
    /\ health = NoMonitor
    /\ stats = NoCollector

NextRef ==
    \/ \E route \in RefRouteInputs : CanAdd(route, MaxRoutes) /\ AddRoute(route)
    \/ \E pattern \in {PatS, PatD, PatRoot} : RemoveRoute(pattern)
    \/ \E path \in {PathSF, PathDF} : RouteWithInfo(path, NoInfo)

SpecRef == InitRef /\ [][NextRef]_vars

(***************************************************************************)
(* The properties.                                                         *)
(***************************************************************************)
\* The routes of the table whose matcher accepts path.
Matching(path) == {i \in 1..Len(routes) : Match(routes[i].compiled, path)}

\* C1: Route(p) returns ErrNoRoute iff no route's matcher accepts p;
\* otherwise it returns the backend of a matching route that no matching
\* route exceeds in priority, whatever the routes' conditions are.
C1_RouteHighestPriorityMatch ==
    ret.op = "Route" =>
        LET m == Matching(ret.path) IN
        /\ ret.err = "ErrNoRoute" <=> m = {}
        /\ m = {} => ret.backend = NilBackend
        /\ m # {} =>
             /\ ret.err = "nil"
             /\ \E i \in m :
                    /\ ret.backend = routes[i].Backend
                    /\ \A j \in m : routes[j].Priority <= routes[i].Priority

\* C1 witness: Route chose between two matching routes of different priority
\* and backend, and every route condition rejects absent metadata.
C1_Witness ==
    /\ ret.op = "Route"
    /\ ret.err = "nil"
    /\ \E i, j \in Matching(ret.path) :
           /\ routes[i].Priority > routes[j].Priority
           /\ routes[i].Backend # routes[j].Backend
    /\ \A i \in 1..Len(routes) : routes[i].Condition = Not(MinSize(2))

\* C2: the route table is sorted by priority descending after every call,
\* and Routes() returns the routes in that order.
C2_SortedByPriority ==
    /\ \A i \in 1..(Len(routes) - 1) : routes[i].Priority >= routes[i + 1].Priority
    /\ ret.op = "Routes" => snap.data = routes

\* C2 witness: Routes() returned a table of three routes of both priorities.
C2_Witness ==
    /\ ret.op = "Routes"
    /\ Len(snap.data) = 3
    /\ snap.data[1].Priority > snap.data[2].Priority
    /\ snap.data[2].Priority = snap.data[3].Priority

\* The keys of the table, in table order.
TableKeys == [i \in 1..Len(routes) |-> KeyOf(routes[i])]

\* C3: routes of equal priority stay in insertion order (the table is in
\* the order of a stable sort), and Route(p) returns the earliest added of
\* the highest-priority routes that match p.
C3_TiesInInsertionOrder ==
    /\ TableKeys = stable
    /\ (ret.op = "Route" /\ ret.err = "nil") =>
           LET first == CHOOSE i \in 1..Len(stable) :
                   /\ PrefixMatch(stable[i].Pattern, ret.path)
                   /\ \A j \in 1..(i - 1) : ~PrefixMatch(stable[j].Pattern, ret.path)
           IN KeyOf(routes[ret.idx]) = stable[first]
\* (pattern, type) does not compile: an unknown type, or a pattern its
\* grammar rejects.
Invalid(pattern, type) ==
    \/ type \notin {PatternPrefix, PatternGlob, PatternRegex}
    \/ type = PatternGlob /\ ~ValidatePattern(pattern)
    \/ type = PatternRegex /\ ~RegexpCompiles(pattern)

\* The table holds a route with this pattern and type.
Holds(pattern, type) ==
    \E i \in 1..Len(routes) : routes[i].Pattern = pattern /\ routes[i].Type = type

\* No two routes of the table share (pattern, kind).
NoSharedKey ==
    \A i, j \in 1..Len(routes) :
        (routes[i].Pattern = routes[j].Pattern /\ routes[i].Type = routes[j].Type)
            => i = j

\* C4 as stated: AddRoute returns ErrDuplicateRoute exactly when the table
\* already holds a route with the same pattern and kind, and no two routes
\* of the table share (pattern, kind).
C4_DuplicateExactlyWhenHeld ==
    /\ [][ret'.op = "AddRoute" =>
            (ret'.err = "ErrDuplicateRoute" <=> Holds(ret'.pattern, ret'.type))]_vars
    /\ []NoSharedKey

\* C4 amended: an AddRoute of a route with a non-nil backend returns
\* ErrDuplicateRoute exactly when the table already holds a route with the
\* same pattern and kind (with a nil backend it returns ErrNilBackend
\* whatever the table holds), and no two routes share (pattern, kind).
C4_DuplicateExactlyWhenHeldNonNil ==
    /\ [][ret'.op = "AddRoute" =>
            (ret'.err = "ErrDuplicateRoute" <=>
                (ret'.backend # NilBackend /\ Holds(ret'.pattern, ret'.type)))]_vars
    /\ []NoSharedKey

\* C4 witness: AddRoute refused a duplicate on a table that holds one
\* pattern under two kinds.
C4_Witness ==
    /\ ret.op = "AddRoute"
    /\ ret.err = "ErrDuplicateRoute"
    /\ \E i, j \in 1..Len(routes) :
           routes[i].Pattern = routes[j].Pattern /\ routes[i].Type # routes[j].Type

\* C5: a failing AddRoute - ErrNilBackend for a nil backend, ErrInvalidPattern
\* for a pattern that does not compile or an unknown kind, ErrDuplicateRoute
\* for a (pattern, kind) the table holds - leaves the table as it was.
C5_FailedAddLeavesTable ==
    [][ret'.op = "AddRoute" =>
        /\ ret'.err # "nil" <=>
               \/ ret'.backend = NilBackend
               \/ Invalid(ret'.pattern, ret'.type)
               \/ Holds(ret'.pattern, ret'.type)
        /\ ret'.err \in {"nil", "ErrNilBackend", "ErrInvalidPattern", "ErrDuplicateRoute"}
        /\ ret'.err = "ErrNilBackend" => ret'.backend = NilBackend
        /\ ret'.err = "ErrInvalidPattern" => Invalid(ret'.pattern, ret'.type)
        /\ ret'.err = "ErrDuplicateRoute" => Holds(ret'.pattern, ret'.type)
        /\ ret'.err # "nil" => routes' = routes]_vars

\* C5 witness: AddRoute failed on a table of two routes.
C5_Witness ==
    /\ ret.op = "AddRoute"
    /\ ret.err = "ErrDuplicateRoute"
    /\ Len(routes) = 2

\* C6: RemoveRoute(pattern) removes the first route in table order whose
\* pattern equals the argument (none with that pattern has a higher
\* priority), whatever its kind, and keeps the others in their order; with
\* no such route it returns ErrNoRoute and leaves the table as it was.
C6_RemoveFirstWithPattern ==
    [][ret'.op = "RemoveRoute" =>
        LET hits == {i \in 1..Len(routes) : routes[i].Pattern = ret'.pattern} IN
        IF hits = {}
        THEN ret'.err = "ErrNoRoute" /\ routes' = routes
        ELSE LET m == CHOOSE i \in hits : \A j \in hits : i <= j IN
             /\ ret'.err = "nil"
             /\ Len(routes') = Len(routes) - 1
             /\ \A i \in 1..(m - 1) : routes'[i] = routes[i]
             /\ \A i \in m..(Len(routes) - 1) : routes'[i] = routes[i + 1]
             /\ \A j \in hits : routes[j].Priority <= routes[m].Priority]_vars

\* C6 witness: RemoveRoute removed one of two routes with the same
\* pattern; the other, of another kind, is still in the table behind a
\* route that was ahead of both.
C6_Witness ==
    /\ ret.op = "RemoveRoute"
    /\ ret.err = "nil"
    /\ Len(routes) = 2
    /\ routes[1].Pattern # ret.pattern
    /\ routes[2].Pattern = ret.pattern

\* The routes RouteWithInfo may return for (path, info): the matcher accepts
\* and the condition is absent or true.
Eligible(path, info) ==
    {i \in Matching(path) :
        routes[i].Condition = NoCondition \/ Evaluate(routes[i].Condition, info)}

\* C7: RouteWithInfo(p, meta) returns the first route in table order whose
\* matcher accepts p and whose condition is absent or true for meta, and
\* ErrNoRoute iff there is none.
C7_RouteWithInfoFirstEligible ==
    ret.op = "RouteWithInfo" =>
        LET e == Eligible(ret.path, ret.info) IN
        /\ ret.err = "ErrNoRoute" <=> e = {}
        /\ e = {} => ret.idx = 0
        /\ e # {} =>
             /\ ret.err = "nil"
             /\ ret.idx \in e
             /\ \A j \in e : ret.idx <= j
             /\ ret.backend = routes[ret.idx].Backend

\* C7 witness: RouteWithInfo passed over a matching route whose condition
\* rejected the metadata and returned a later one.
C7_Witness ==
    /\ ret.op = "RouteWithInfo"
    /\ ret.err = "nil"
    /\ ret.info.present
    /\ ret.idx > 1
    /\ 1 \in Matching(ret.path)
    /\ routes[1].Backend # routes[ret.idx].Backend

\* C8 as stated: with absent metadata RouteWithInfo(p, absent) selects what
\* Route(p) selects, whatever built-in conditions the routes carry.
C8_AbsentInfoSameAsRoute ==
    (ret.op = "RouteWithInfo" /\ ~ret.info.present) =>
        LET i == routeIndex(routes, ret.path) IN
        /\ ret.err = IF i = 0 THEN "ErrNoRoute" ELSE "nil"
        /\ ret.backend = IF i = 0 THEN NilBackend ELSE routes[i].Backend

\* A condition built without Not and without an Or of no operands.
RECURSIVE AssumesMatch(_)
AssumesMatch(c) ==
    CASE c.k = "not" -> FALSE
      [] c.k = "and" -> \A i \in 1..Len(c.conditions) : AssumesMatch(c.conditions[i])
      [] c.k = "or" -> /\ Len(c.conditions) > 0
                       /\ \A i \in 1..Len(c.conditions) : AssumesMatch(c.conditions[i])
      [] OTHER -> TRUE

\* C8 amended: with absent metadata RouteWithInfo(p, absent) selects what
\* Route(p) selects, provided every route's condition is absent or built
\* without Not and without an Or of no operands.
C8_AbsentInfoSameAsRouteNoNot ==
    (/\ ret.op = "RouteWithInfo"
     /\ ~ret.info.present
     /\ \A i \in 1..Len(routes) :
            routes[i].Condition = NoCondition \/ AssumesMatch(routes[i].Condition)) =>
        LET i == routeIndex(routes, ret.path) IN
        /\ ret.err = IF i = 0 THEN "ErrNoRoute" ELSE "nil"
        /\ ret.backend = IF i = 0 THEN NilBackend ELSE routes[i].Backend

\* C8 witness: RouteWithInfo with absent metadata returned a route that
\* carries a size condition, ahead of another matching route.
C8_Witness ==
    /\ ret.op = "RouteWithInfo"
    /\ ~ret.info.present
    /\ ret.err = "nil"
    /\ routes[ret.idx].Condition = MinSize(2)
    /\ \A i \in 1..Len(routes) : routes[i].Condition # Not(MinSize(2))
    /\ Cardinality(Matching(ret.path)) > 1

C10_RoutesDefensiveCopy ==
    [][/\ ret'.op = "Routes" => SnapView' = routes
       /\ ret'.op \in {"SnapSet", "SnapSwap", "SnapTruncate"} => routes' = routes
       /\ ret'.op \in {"AddRoute", "RemoveRoute"} => SnapView' = SnapView]_vars

\* C10 witness: the caller exchanged two routes of the slice it holds, which
\* now differs from the table.
C10_Witness ==
    /\ ret.op = "SnapSwap"
    /\ Len(routes) = 3
    /\ Len(SnapView) = 3
    /\ SnapView # routes

\* The first route of the table whose matcher accepts path.
First(path) ==
    LET m == Matching(path) IN CHOOSE i \in m : \A j \in m : i <= j

\* The backend the facade is to use for path: the first matching route's,
\* else the default backend, else none (NilBackend).
Selected(path) ==
    LET m == Matching(path) IN
    IF m # {} THEN routes[CHOOSE i \in m : \A j \in m : i <= j].Backend
    ELSE defaultFS

\* The path operations other than Rename.
PathOps ==
    {"OpenFile", "Open", "Create", "Mkdir", "MkdirAll", "Remove", "RemoveAll",
     "Stat", "Chmod", "Chtimes", "Chown", "Truncate"}

\* C11: getBackend returns the router-selected backend when some route
\* matches, even if a default backend is set; the default backend when no
\* route matches and one is set; and ErrNoRoute when no route matches and no
\* default is set.  The backend a path operation calls is that backend.
C11_GetBackendSelection ==
    /\ \A path \in FsPaths :
           LET got == getBackend(routes, defaultFS, path) IN
           /\ Matching(path) # {} =>
                  got = [backend |-> routes[First(path)].Backend, err |-> "nil"]
           /\ (Matching(path) = {} /\ defaultFS # NilBackend) =>
                  got = [backend |-> defaultFS, err |-> "nil"]
           /\ (Matching(path) = {} /\ defaultFS = NilBackend) =>
                  got = [backend |-> NilBackend, err |-> "ErrNoRoute"]
    /\ fret.op \in PathOps =>
           IF Selected(fret.path) = NilBackend
           THEN fret.err = "ErrNoRoute" /\ log = <<>>
           ELSE log # <<>> /\ log[1].backend = Selected(fret.path)

\* C11 witness: a path operation went to the backend of a matching route
\* although a different default backend is set.
C11_Witness ==
    /\ fret.op \in PathOps
    /\ Matching(fret.path) # {}
    /\ defaultFS # NilBackend
    /\ defaultFS # routes[First(fret.path)].Backend
    /\ log # <<>>
    /\ log[1].backend = routes[First(fret.path)].Backend

\* No route matches path and no default backend is set.
Unrouted(path) == Matching(path) = {} /\ defaultFS = NilBackend

\* C12: with no matching route and no default backend, every path operation
\* (Rename when its source or its destination is unrouted) returns
\* ErrNoRoute and calls no backend.
C12_NoRouteNoBackendCall ==
    (\/ fret.op \in PathOps /\ Unrouted(fret.path)
     \/ fret.op = "Rename" /\ (Unrouted(fret.path) \/ Unrouted(fret.path2)))
    => (fret.err = "ErrNoRoute" /\ log = <<>>)

\* C12 witness: a Rename whose source is routed and whose destination is not.
C12_Witness ==
    /\ fret.op = "Rename"
    /\ ~Unrouted(fret.path)
    /\ Unrouted(fret.path2)
    /\ fret.err = "ErrNoRoute"
    /\ log = <<>>

\* The path the facade is to hand to the backend: the selected route's
\* rewriter applied to the caller's path, the path itself without one.
Rewritten(path) ==
    IF Matching(path) = {} \/ routes[First(path)].Rewriter = NoRewriter
    THEN path
    ELSE Rewrite(routes[First(path)].Rewriter, path)

\* C13: for every path operation except Rename, the path handed to the
\* backend is the selected route's rewriter applied to the caller's path.
C13_RewrittenPathDispatched ==
    (fret.op \in PathOps /\ log # <<>>) => log[1].path = Rewritten(fret.path)

\* The call on the backend that corresponds to a facade operation: Open and
\* Create are OpenFile with their flags and permissions.
BackendOp(call) ==
    IF call.op \in {"Open", "Create"} THEN "OpenFile" ELSE call.op
BackendArgs(call) ==
    CASE call.op = "Open" -> <<O_RDONLY, 0>>
      [] call.op = "Create" -> <<O_RDWR \cup O_CREATE \cup O_TRUNC, 438>>
      [] OTHER -> call.args

C15_ResultUnchanged ==
    /\ (fret.op \in PathOps /\ log # <<>>) =>
           (fret.err = log[1].err /\ fret.value = log[1].value)
    /\ (fret.op = "Rename" /\ log # <<>> /\ log[1].op = "Rename") =>
           fret.err = log[1].err

\* C15 witness: the backend failed an OpenFile and the caller got its error.
C15_Witness ==
    /\ fret.op = "OpenFile"
    /\ log # <<>>
    /\ log[1].err = "EIO"
    /\ fret.err = "EIO"

\* C16: when source and destination of a Rename resolve to the same backend,
\* through routes or the default backend, the facade calls that backend's
\* Rename once and nothing else.
C16_SameBackendNativeRename ==
    (/\ fret.op = "Rename"
     /\ Selected(fret.path) # NilBackend
     /\ Selected(fret.path) = Selected(fret.path2)) =>
        /\ Len(log) = 1
        /\ log[1].op = "Rename"
        /\ log[1].backend = Selected(fret.path)
        /\ log[1].path = fret.path
        /\ log[1].path2 = fret.path2

\* C16 witness: the source resolved through a route and the destination
\* through the default backend, to the same backend.
C16_Witness ==
    /\ fret.op = "Rename"
    /\ Matching(fret.path) # {}
    /\ Matching(fret.path2) = {}
    /\ defaultFS = Selected(fret.path)
    /\ Len(log) = 1
    /\ log[1].op = "Rename"

\* The step is a Rename across backends: a Rename returns, and its source
\* and its destination resolve to the different backends sb and db.
CrossRename(sb, db) ==
    /\ fret'.op = "Rename"
    /\ <<fret', log', disk'>> # <<fret, log, disk>>
    /\ sb # NilBackend
    /\ db # NilBackend
    /\ sb # db

\* C17: after a successful Rename of a regular file across backends, the
\* destination backend holds at the destination exactly the bytes the source
\* held before the call, and the source backend holds nothing at the source.
C17_CrossMoveRoundTrip ==
    [][(fret'.op = "Rename" /\ fret'.err = "nil") =>
           LET sb == Selected(fret'.path)
               db == Selected(fret'.path2)
           IN (CrossRename(sb, db) /\ disk[sb][fret'.path].kind = "file") =>
                  /\ disk'[db][fret'.path2] = File(disk[sb][fret'.path].data)
                  /\ disk'[sb][fret'.path] = NoObject]_vars

\* C17 witness: a file of two bytes was moved from one backend to the other.
C17_Witness ==
    /\ fret.op = "Rename"
    /\ fret.err = "nil"
    /\ Selected(fret.path) # Selected(fret.path2)
    /\ \E i \in 1..Len(log) : log[i].op = "Copy" /\ log[i].value = 2
    /\ disk[Selected(fret.path2)][fret.path2] = File(<<"h", "i">>)
    /\ disk[Selected(fret.path)][fret.path] = NoObject

\* The calls of a log that failed (a deferred second Close aside).
Failed(calls) == {i \in 1..Len(calls) : calls[i].err \notin {"nil", "ErrClosed"}}

\* C18: a Rename of a directory across backends, an empty one included,
\* succeeds when no backend fails: the directory exists at the destination
\* and no longer at the source.
C18_DirectoryMoveSucceeds ==
    [][(fret'.op = "Rename" /\ Failed(log') = {}) =>
           LET sb == Selected(fret'.path)
               db == Selected(fret'.path2)
           IN (/\ CrossRename(sb, db)
               /\ disk[sb][fret'.path] = Dir
               /\ disk[db][fret'.path2] = NoObject) =>
                  /\ fret'.err = "nil"
                  /\ disk'[db][fret'.path2] = Dir
                  /\ disk'[sb][fret'.path] = NoObject]_vars

\* C19: in a move across backends the first failing step aborts the move and
\* its error is returned; after a failure the source backend is as it was,
\* nothing is removed, and what was written at the destination stays.
C19_FailedMoveKeepsSource ==
    [][(fret'.op = "Rename" /\ fret'.err # "nil") =>
           LET sb == Selected(fret'.path)
               db == Selected(fret'.path2)
           IN CrossRename(sb, db) =>
                  /\ disk'[sb] = disk[sb]
                  /\ Failed(log') # {} =>
                         LET first == CHOOSE i \in Failed(log') :
                                          \A j \in Failed(log') : i <= j
                         IN /\ fret'.err = log'[first].err
                            /\ \A j \in (first + 1)..Len(log') :
                                   log'[j].op = "Close"
                  /\ \A i \in 1..Len(log') :
                         /\ log'[i].op # "RemoveAll"
                         /\ log'[i].op = "Remove" =>
                                (i \in Failed(log') /\ log'[i].path = fret'.path)
                         /\ log'[i].op = "Copy" =>
                                disk'[db][fret'.path2] =
                                    File(SubSeq(disk[sb][fret'.path].data, 1,
                                                log'[i].value))]_vars

\* C19 witness: the copy failed after one byte of two; the source is whole
\* and the destination holds the byte written.
C19_Witness ==
    /\ fret.op = "Rename"
    /\ fret.err = "EIO"
    /\ \E i \in 1..Len(log) :
           log[i].op = "Copy" /\ log[i].err = "EIO" /\ log[i].value = 1
    /\ disk[Selected(fret.path)][fret.path] = File(<<"h", "i">>)
    /\ disk[Selected(fret.path2)][fret.path2] = File(<<"h">>)

\* The calls of the log on the handle Open or Create returned at call i.
ClosesOf(i) ==
    {j \in 1..Len(log) : /\ log[j].op = "Close"
                         /\ log[j].backend = log[i].value.backend
                         /\ log[j].path = log[i].value.path}

\* C20: in a file move across backends the steps happen in the order open
\* source, create destination, copy, close both handles, remove source: the
\* source's handle and the destination's are both closed before Remove is
\* called on the source backend.
C20_ClosedBeforeRemove ==
    fret.op = "Rename" =>
        \A r \in 1..Len(log) : log[r].op = "Remove" =>
            \E o, c, cp \in 1..(r - 1) :
                /\ log[o].op = "Open" /\ log[c].op = "Create" /\ log[cp].op = "Copy"
                /\ o < c /\ c < cp
                /\ \E j \in ClosesOf(o) : cp < j /\ j < r
                /\ \E j \in ClosesOf(c) : cp < j /\ j < r

\* The calls of the log that opened a handle: a successful Open or Create.
Opened == {i \in 1..Len(log) : log[i].op \in {"Open", "Create"} /\ log[i].err = "nil"}

\* C21: when a Rename across backends returns, on success or after a failure
\* at create, copy, close or remove, every handle it opened (the source's and
\* the destination's) has been closed after it was opened, and every Close
\* is of a handle opened before it.
C21_HandlesClosedOnReturn ==
    fret.op = "Rename" =>
        /\ \A i \in Opened : \E j \in ClosesOf(i) : i < j
        /\ \A j \in 1..Len(log) : log[j].op = "Close" =>
               \E i \in Opened : i < j /\ j \in ClosesOf(i)

\* C21 witness: Create failed at the destination after the source was
\* opened, and the source's handle was closed on the way out.
C21_Witness ==
    /\ fret.op = "Rename"
    /\ fret.err = "EIO"
    /\ Len(log) = 4
    /\ log[2].op = "Open" /\ log[2].err = "nil"
    /\ log[3].op = "Create" /\ log[3].err = "EIO"
    /\ log[4].op = "Close" /\ log[4].path = fret.path

\* C22: the working directory starts at "/" and only Chdir changes it: to
\* the cleaned argument when that is absolute, to the cleaned join of the
\* stored directory and the argument when it is relative, with no call on
\* the router or on a backend; Getwd returns the stored directory; every
\* other operation of the facade and of the router leaves it as it is.
C22_CwdChangedOnlyByChdir ==
    /\ currentDir = <<"/">>
    /\ [][/\ (fret'.op = "Chdir" /\ fret' # fret) =>
                 /\ currentDir' = IF fret'.path # <<>> /\ fret'.path[1] = "/"
                                  THEN Clean(fret'.path)
                                  ELSE Clean(currentDir \o <<"/">> \o fret'.path)
                 /\ ret' = ret /\ log' = <<>> /\ disk' = disk /\ routes' = routes
          /\ (fret'.op = "Getwd" /\ fret' # fret) =>
                 fret'.value = currentDir /\ fret'.err = "nil"
          /\ currentDir' # currentDir =>
                 fret'.op = "Chdir" /\ ret' = ret]_vars

\* C22 witness: after Chdir("/b") and Chdir("a"), Getwd returned "/b/a"; routes were
\* added in between.
C22_Witness ==
    /\ fret.op = "Getwd"
    /\ fret.value = <<"/", "b", "/", "a">>
    /\ currentDir = <<"/", "b", "/", "a">>
    /\ ret.op = "AddRoute"
    /\ Len(routes) = 2

\* The keys of the routes of a table.
KeysOf(rs) == {KeyOf(rs[i]) : i \in 1..Len(rs)}

\* C23: route-table changes are linearizable: under any interleaving of
\* AddRoute, RemoveRoute, Route, RouteWithInfo and Routes by several threads
\* a lookup returns what it finds in a table that was the router's at some
\* moment between its call and its return (a table a writer left behind,
\* sorted, never one a writer is working on), and that table holds every
\* route whose AddRoute had returned before the lookup was called, unless a
\* RemoveRoute was called for it since.
C23_RouteTableLinearizable ==
    \A t \in Threads :
        (thread[t].op \in RouterLookups /\ thread[t].pc \in {"runlock", "done"}) =>
            /\ thread[t].view \in thread[t].window
            /\ \A i, j \in 1..Len(thread[t].view) :
                   i < j => thread[t].view[i].Priority >= thread[t].view[j].Priority
            /\ thread[t].res =
                   lookup(thread[t].op, thread[t].arg, 1, thread[t].view)
            /\ thread[t].must \subseteq KeysOf(thread[t].view)

\* C23 witness: a Route returned the backend of a route that another thread
\* added while the lookup was waiting for the lock.
C23_Witness ==
    \E t \in Threads :
        /\ thread[t].op = "Route" /\ thread[t].pc = "done"
        /\ thread[t].res.backend = "b1"
        /\ Cardinality(thread[t].window) = 2
        /\ <<>> \in thread[t].window
        /\ \E u \in Threads \ {t} : thread[u].op = "AddRoute" /\ thread[u].pc = "done"

\* C24: while no thread changes the table, the threads that call Route(p)
\* for one p, among themselves and alongside Routes() calls, all get one
\* backend, the first matching route's, and no error but ErrNoRoute.
C24_ConcurrentReadersAgree ==
    \A t \in Threads :
        (thread[t].op = "Route" /\ thread[t].pc \in {"runlock", "done"}) =>
            /\ thread[t].res.err \in {"nil", "ErrNoRoute"}
            /\ thread[t].res.backend =
                   IF Matching(thread[t].arg[1]) = {} THEN NilBackend
                   ELSE routes[First(thread[t].arg[1])].Backend
            /\ \A u \in Threads :
                   (/\ thread[u].op = "Route"
                    /\ thread[u].pc \in {"runlock", "done"}
                    /\ thread[u].arg = thread[t].arg) =>
                       /\ thread[u].res.backend = thread[t].res.backend
                       /\ thread[u].res.err = thread[t].res.err

\* C24 witness: two threads hold the read lock, each with the result of
\* Route for the same path, the backend of the route of higher priority.
C24_Witness ==
    /\ mu.readers = Threads
    /\ \A t \in Threads :
           /\ thread[t].op = "Route" /\ thread[t].pc = "runlock"
           /\ thread[t].arg = <<PathSF>>
           /\ thread[t].res.backend = "b1"
    /\ Len(routes) = 2

\* C25: a thread whose facade operation is in a backend call holds the
\* router's lock neither for reading nor for writing, so when every thread
\* is in a backend call, in no call or waiting for the write lock, an
\* AddRoute or RemoveRoute that waits for the lock gets it.
C25_NoLockDuringBackendCall ==
    /\ \A t \in Threads :
           thread[t].pc = "backend" => t \notin mu.readers /\ mu.writer # t
    /\ (\A t \in Threads : thread[t].pc \in {"backend", "idle", "done", "lock"}) =>
           canLock(mu)

\* C25 witness: a thread is in the backend call of an operation that found
\* the table empty, and another thread's AddRoute has since returned.
C25_Witness ==
    \E t \in Threads, u \in Threads :
        /\ thread[t].pc = "backend"
        /\ thread[t].op = "PathOp"
        /\ thread[t].view = <<>>
        /\ thread[u].op = "AddRoute" /\ thread[u].pc = "done"
        /\ thread[u].res.err = "nil"
        /\ Len(routes) = 1

\* C26: Chdir and Getwd are safe to call from several threads: everything
\* the calls have returned so far is what running them one at a time, in an
\* order that keeps each call between its call and its return, returns; and
\* when no Chdir is in progress the working directory is the one such an
\* order leaves (of two Chdir calls with relative arguments neither is lost).
C26_CwdLinearizable ==
    /\ LinClosure(lin, thread, Cardinality(Threads)) # {}
    /\ (\A t \in Threads : thread[t].pc # "store") =>
           currentDir \in {c.value : c \in lin}

\* The reorderings of an option list that keep its WithRoute options in
\* their relative order.
Reorderings(opts) ==
    {q \in {[i \in 1..Len(opts) |-> opts[p[i]]] : p \in Permutations(1..Len(opts))} :
        SelectSeq(q, LAMBDA o : o.kind = "route")
            = SelectSeq(opts, LAMBDA o : o.kind = "route")}

\* C27: New gives every reordering of its options that keeps the route
\* options in their relative order the same facade: both orders fail or
\* neither does, and the route table, the default backend and the temporary
\* directory are the same, wherever WithRouter stands among the options.
C27_OptionOrderIrrelevant ==
    fret.op = "New" =>
        \A q \in Reorderings(fret.args) :
            \E other \in {new(q, 1, newFacade)} :
                /\ (other.err = "nil") <=> (fret.err = "nil")
                /\ fret.err = "nil" =>
                       /\ other.routes = routes
                       /\ other.defaultFS = defaultFS
                       /\ other.tempDir = tempDir

\* A path in the matcher's normal form: cleaned, with one leading "/".
Normalized(path) ==
    IF Clean(path)[1] = "/" THEN Clean(path) ELSE <<"/">> \o Clean(path)

\* String s is string q followed by some string.
BeginsWith(s, q) == \E k \in 0..Len(s) : s = q \o SubSeq(s, k + 1, Len(s))

FirstDeciding(cs, info, v) ==
    IF \E i \in 1..Len(cs) : Evaluate(cs[i], info) = v
    THEN CHOOSE i \in 1..Len(cs) :
             /\ Evaluate(cs[i], info) = v
             /\ \A j \in 1..(i - 1) : Evaluate(cs[j], info) # v
    ELSE Len(cs)

\* C29: And(c1..cn) is true iff every ci is (And() is true) and Or(c1..cn)
\* iff some ci is (Or() is false); both evaluate their operands from the
\* left up to the first that decides and no further; Not(c) is true iff c
\* is not, and Not(Not(c)) evaluates as c does, on every metadata, absent
\* metadata included.
C29_ConditionComposition ==
    ret.op = "Evaluate" =>
        /\ cond.k = "and" =>
               /\ ret.ok <=> \A i \in 1..Len(cond.conditions) :
                                 Evaluate(cond.conditions[i], ret.info)
               /\ ret.idx = FirstDeciding(cond.conditions, ret.info, FALSE)
               /\ cond.conditions = <<>> => ret.ok
        /\ cond.k = "or" =>
               /\ ret.ok <=> \E i \in 1..Len(cond.conditions) :
                                 Evaluate(cond.conditions[i], ret.info)
               /\ ret.idx = FirstDeciding(cond.conditions, ret.info, TRUE)
               /\ cond.conditions = <<>> => ~ret.ok
        /\ cond.k = "not" =>
               /\ ret.ok <=> ~Evaluate(cond.condition, ret.info)
               /\ Evaluate(Not(cond), ret.info) <=> Evaluate(cond.condition, ret.info)
        /\ Evaluate(Not(Not(cond)), ret.info) <=> ret.ok

\* C29 witness: an And of two operands, the first false and the second
\* true, returned false after one operand; the metadata is present.
C29_Witness ==
    /\ ret.op = "Evaluate"
    /\ cond.k = "and"
    /\ Len(cond.conditions) = 2
    /\ ret.info.present
    /\ ~Evaluate(cond.conditions[1], ret.info)
    /\ Evaluate(cond.conditions[2], ret.info)
    /\ ~ret.ok
    /\ ret.idx = 1

\* The rewriters of rs applied to x one after the other, the last of them
\* last.
RECURSIVE ApplyInOrder(_, _)
ApplyInOrder(rs, x) ==
    IF rs = <<>> THEN x
    ELSE Rewrite(rs[Len(rs)], ApplyInOrder(SubSeq(rs, 1, Len(rs) - 1), x))

\* C30: ChainRewriters(r1, r2).Rewrite(x) is r2.Rewrite(r1.Rewrite(x)); a
\* chain of n rewriters rewrites x as its rewriters do one after the other
\* from the left, and the empty chain returns x.
C30_ChainIsComposition ==
    (fret.op = "Rewrite" /\ fret.args.k = "chain") =>
        /\ fret.value = ApplyInOrder(fret.args.rewriters, fret.path)
        /\ Len(fret.args.rewriters) = 2 =>
               fret.value = Rewrite(fret.args.rewriters[2],
                                    Rewrite(fret.args.rewriters[1], fret.path))
        /\ fret.args.rewriters = <<>> => fret.value = fret.path

\* C30 witness: a chain of two rewriters returned a path that neither of
\* them returns alone and that the two in the other order do not return.
C30_Witness ==
    /\ fret.op = "Rewrite"
    /\ fret.args.k = "chain"
    /\ Len(fret.args.rewriters) = 2
    /\ fret.value # Rewrite(fret.args.rewriters[1],
                            Rewrite(fret.args.rewriters[2], fret.path))
    /\ fret.value # Rewrite(fret.args.rewriters[1], fret.path)
    /\ fret.value # Rewrite(fret.args.rewriters[2], fret.path)

\* C31 as stated: on present metadata a size condition is false iff
\* minBytes > 0 and the size is below it, or maxBytes > 0 and the size is
\* above it; a bound of 0 is no bound, and a size equal to either bound is
\* accepted.
C31_SizeBoundsInclusive ==
    (ret.op = "Evaluate" /\ cond.k = "size" /\ ret.info.present) =>
        /\ ~ret.ok <=> \/ cond.minSize > 0 /\ ret.info.size < cond.minSize
                       \/ cond.maxSize > 0 /\ ret.info.size > cond.maxSize
        /\ (cond.minSize = 0 /\ cond.maxSize = 0) => ret.ok
        /\ (cond.minSize > 0 /\ ret.info.size = cond.minSize) => ret.ok
        /\ (cond.maxSize > 0 /\ ret.info.size = cond.maxSize) => ret.ok

\* C31: on present metadata a size condition is false iff minBytes > 0 and
\* the size is below it, or maxBytes > 0 and the size is above it; a bound
\* of 0 is no bound, and a size equal to a bound is accepted unless the
\* other bound rejects it.
C31_SizeBounds ==
    (ret.op = "Evaluate" /\ cond.k = "size" /\ ret.info.present) =>
        /\ ~ret.ok <=> \/ cond.minSize > 0 /\ ret.info.size < cond.minSize
                       \/ cond.maxSize > 0 /\ ret.info.size > cond.maxSize
        /\ (cond.minSize = 0 /\ cond.maxSize = 0) => ret.ok
        /\ (cond.minSize > 0 /\ ret.info.size = cond.minSize) =>
               (ret.ok <=> ~(cond.maxSize > 0 /\ ret.info.size > cond.maxSize))
        /\ (cond.maxSize > 0 /\ ret.info.size = cond.maxSize) =>
               (ret.ok <=> ~(cond.minSize > 0 /\ ret.info.size < cond.minSize))

\* C31 witness: a size equal to the upper bound of a range was accepted and
\* the range has a lower bound too.
C31_Witness ==
    /\ ret.op = "Evaluate"
    /\ cond.k = "size"
    /\ ret.info.present
    /\ cond.minSize > 0
    /\ cond.maxSize > cond.minSize
    /\ ret.info.size = cond.maxSize
    /\ ret.ok

\* C32: used by one caller, a router with a cache returns from every
\* Route(p) what the router without one returns on the same table: the
\* backend of the first route that matches p, or ErrNoRoute.  (AddRoute and
\* RemoveRoute change the table of both in the same way.)
C32_CachedRouterEquivalent ==
    (ret.op = "Route" /\ ~cache.nil) =>
        \E i \in {routeIndex(routes, ret.path)} :
            /\ ret.err = IF i = 0 THEN "ErrNoRoute" ELSE "nil"
            /\ ret.backend = IF i = 0 THEN NilBackend ELSE routes[i].Backend
            /\ \A e \in cache.entries :
                   e.RouteIndex + 1 = routeIndex(routes, e.path)

\* C32 witness: Route answered from the cache with the second route of a
\* table of three, and the cache holds the index of another path too.
C32_Witness ==
    /\ ret.op = "Route"
    /\ ret.ok
    /\ Len(routes) = 3
    /\ ret.idx = 2
    /\ ret.err = "nil"
    /\ Cardinality(cache.entries) = 2
    /\ now > 0

\* C34: a RouteCache never holds more entries than its capacity, Size()
\* returns their number, and a Set on a full cache leaves the cache without
\* an entry that no other entry was older than.
C34_CacheSizeBounded ==
    /\ ~cache.nil => Cardinality(cache.entries) <= cache.maxSize
    /\ (ret.op = "CacheSize" /\ ~cache.nil) => ret.idx <= cache.maxSize

\* C33: a Route on a router with a cache that runs alongside AddRoute or
\* RemoveRoute returns the backend of the first matching route of a table
\* that was the router's between its call and its return (the table before
\* or after the change), never the backend standing at a cached index that
\* was computed for an earlier table.
C33_CachedRouteFirstMatch ==
    \A t \in Threads :
        (thread[t].op = "Route" /\ thread[t].pc = "done" /\ ~cache.nil) =>
            \E rs \in thread[t].window :
                thread[t].res.backend = lookup("Route", thread[t].arg, 1, rs).backend

\* C35: with a failure threshold of 1 or more, after any RecordSuccess,
\* RecordFailure, Reset and ResetAll, every tracked backend has its circuit
\* open iff it is not Healthy iff its FailureCount has reached the
\* threshold; RecordSuccess leaves the backend with FailureCount 0 and a
\* closed circuit; IsHealthy reports an untracked backend healthy.
C35_CircuitBreakerState ==
    /\ \A b \in Backends :
           health.backends[b].tracked =>
               /\ health.backends[b].CircuitOpen <=> ~health.backends[b].Healthy
               /\ ~health.backends[b].Healthy <=>
                      health.backends[b].FailureCount >= health.failureThreshold
    /\ ret.op = "RecordSuccess" =>
           /\ health.backends[ret.backend].tracked
           /\ health.backends[ret.backend].FailureCount = 0
           /\ ~health.backends[ret.backend].CircuitOpen
    /\ (ret.op = "IsHealthy" /\ ~health.backends[ret.backend].tracked) => ret.ok

\* C35 witness: RecordSuccess closed the circuit of a backend that had
\* failed, while the other backend's circuit is open after failures beyond
\* a threshold of 2.
C35_Witness ==
    /\ ret.op = "RecordSuccess"
    /\ health.backends[ret.backend].LastFailure # NoTime
    /\ health.backends[ret.backend].FailureCount = 0
    /\ health.failureThreshold = 2
    /\ \E b \in Backends \ {ret.backend} :
           /\ health.backends[b].CircuitOpen
           /\ health.backends[b].FailureCount = 3

\* C36: while a circuit is open and circuitTimeout has not passed since it
\* opened IsHealthy returns false; once it has passed IsHealthy returns
\* true for one call, and false for the calls after it until a
\* RecordSuccess or RecordFailure for the backend.
C36_OneRetryAfterTimeout ==
    (ret.op = "IsHealthy" /\ health.backends[ret.backend].tracked
        /\ health.backends[ret.backend].CircuitOpen) =>
        /\ now - health.backends[ret.backend].CircuitOpened.t
               <= health.circuitTimeout => ~ret.ok
        /\ ret.idx >= 2 => ~ret.ok

\* C37: RetryWithBackoff invokes op at most MaxAttempts times and stops at
\* the first invocation that returns nil; whatever MaxAttempts is, it
\* returns nil only if an invocation of op returned nil, and else the error
\* of the last invocation.
C37_RetryReturnsLastError ==
    fret.op = "RetryWithBackoff" =>
        /\ fret.value.calls <= fret.args[1].MaxAttempts \/ fret.value.calls = 0
        /\ \A i \in 1..(fret.value.calls - 1) : fret.args[2][i] # "nil"
        /\ fret.err = "nil" =>
               \E i \in 1..fret.value.calls : fret.args[2][i] = "nil"
        /\ fret.err # "nil" => fret.err = fret.args[2][fret.value.calls]

\* C38: with a multiplier of 1 or more every delay RetryWithBackoff sleeps
\* is at most MaxDelay, no delay is shorter than the one before it, there
\* is one sleep between two attempts and none after the last attempt.
C38_DelaysBoundedByMaxDelay ==
    (/\ fret.op = "RetryWithBackoff"
     /\ fret.args[1].Multiplier.num >= fret.args[1].Multiplier.den) =>
        /\ \A i \in 1..Len(fret.value.sleeps) :
               fret.value.sleeps[i] <= fret.args[1].MaxDelay
        /\ \A i \in 1..(Len(fret.value.sleeps) - 1) :
               fret.value.sleeps[i] <= fret.value.sleeps[i + 1]
        /\ Len(fret.value.sleeps) =
               IF fret.value.calls = 0 THEN 0 ELSE fret.value.calls - 1

\* A thread is in a call on the collector.
InStatsCall(t) == stats.call[t].pc \notin {"idle", "done"}

\* A thread waits for sc.mu and does not get it in this state.
StatsBlocked(t) ==
    \/ stats.call[t].pc = "lock" /\ ~statsCanLock(stats)
    \/ stats.call[t].pc = "rlock" /\ ~statsCanRLock(stats)

\* C39: the StatsCollector is free of deadlock: whenever threads are in
\* calls of GetAllStats, GetRouteStats, RecordOperation, RecordRouteHit or
\* Reset, one of them can take its next step, so no set of calls waits for
\* sc.mu for ever.
C39_StatsDeadlockFree ==
    (\E t \in Threads : InStatsCall(t)) =>
        \E t \in Threads : InStatsCall(t) /\ ~StatsBlocked(t)

\* C40: the route the caller reads through the pointer RouteWithInfo
\* returned is the route that was selected (its pattern, kind, priority,
\* backend, condition and rewriter), whatever AddRoute and RemoveRoute
\* calls on the router followed.
C40_ReturnedRouteStable ==
    (ref.tracked /\ ref.held) => deref(ref) = ref.selected

====
